---- MODULE Spec2Model ----
(***************************************************************************)
(* A model of the resume analyzer: the similarity scorer                   *)
(* (similarity_calculator.py), the field extractors and the batch parser   *)
(* (resume_parser.py) and the upload loop (app.py).                        *)
(*                                                                         *)
(* Representation.  A Python str is a sequence of words; the words are     *)
(* joined by single blanks.  Everything the code does with the characters  *)
(* of a word (lower-casing, \w+ tokenizing, stop-word removal, Porter      *)
(* stemming, substring tests) is a table over the words of the model.      *)
(* A Python float is an exact rational [n, d] with d > 0; round(x, 1) is   *)
(* the number of tenths nearest to x, so every reported one-decimal value  *)
(* is an integer number of tenths (75.0 is 750).                           *)
(***************************************************************************)
EXTENDS Integers, Sequences, FiniteSets, TLC

VARIABLES
    \* one call of calculate_similarity
    skills, job_description, experience_years, seniority_level, result, pc,
    \* one batch: parse_resumes over a folder, and the upload loop of process
    files, file_idx, results, parsed_resumes, upload_dir, batch_pc,
    \* one call of extract_skills
    text, found_skills, skill_pc,
    \* one call of extract_name
    name_text, name, name_pc,
    \* one call of a function of one text: the function, its argument, its result
    callee, arg, ret

vars == <<skills, job_description, experience_years, seniority_level, result, pc,
          files, file_idx, results, parsed_resumes, upload_dir, batch_pc,
          text, found_skills, skill_pc, name_text, name, name_pc,
          callee, arg, ret>>

score_vars == <<skills, job_description, experience_years, seniority_level, result, pc>>
batch_vars == <<files, file_idx, results, parsed_resumes, upload_dir, batch_pc>>
skill_vars == <<text, found_skills, skill_pc>>
name_vars  == <<name_text, name, name_pc>>
call_vars  == <<callee, arg, ret>>

(***************************************************************************)
(* Sequences.                                                              *)
(***************************************************************************)
Range(s) == {s[i] : i \in 1..Len(s)}

SeqsUpTo(S, n) == UNION {[1..k -> S] : k \in 0..n}

RECURSIVE Flatten(_)
Flatten(ss) == IF ss = <<>> THEN <<>> ELSE Head(ss) \o Flatten(Tail(ss))

Min(a, b) == IF a <= b THEN a ELSE b

(***************************************************************************)
(* Python values.  None, a str (a sequence of words) and a value that is   *)
(* no str (an int passed where a str is expected).                         *)
(***************************************************************************)
None == [type |-> "NoneType", val |-> <<>>]
Str(words) == [type |-> "str", val |-> words]
NonStr == [type |-> "int", val |-> <<>>]
PyInt(n) == [type |-> "int", val |-> n]
IsStr(v) == v.type = "str"
IsNone(v) == v.type = "NoneType"

(***************************************************************************)
(* str.lower() of a word.                                                  *)
(***************************************************************************)
LowerWord(w) ==
    CASE w = "Looking" -> "looking"
      [] w = "Python"  -> "python"
      [] w = "Go"      -> "go"
      [] w = "SAP"     -> "sap"
      [] w = "BASIS"   -> "basis"
      [] w = "Chief"   -> "chief"
      [] w = "Senior"  -> "senior"
      [] w = "Mid"     -> "mid"
      [] OTHER         -> w

Lower(words) == [i \in 1..Len(words) |-> LowerWord(words[i])]

(***************************************************************************)
(* RegexpTokenizer(r'\w+') on one lower-case word: its maximal runs of     *)
(* word characters.                                                        *)
(***************************************************************************)
TokenizeWord(w) ==
    CASE w = "5+"      -> <<"5">>
      [] w = "3-5"     -> <<"3", "5">>
      [] w = "01/2018" -> <<"01", "2018">>
      [] w = "-"       -> <<>>
      [] OTHER         -> <<w>>

Tokenize(words) == Flatten([i \in 1..Len(words) |-> TokenizeWord(words[i])])

(***************************************************************************)
(* The English stop words among the words of the model; they are in        *)
(* nltk's list and in BASIC_STOPWORDS alike.                               *)
(***************************************************************************)
stop_words == {"for", "a", "with", "and", "of", "at", "in", "to", "from", "now"}

(***************************************************************************)
(* PorterStemmer().stem of a token.                                        *)
(***************************************************************************)
Stem(t) ==
    CASE t = "looking"    -> "look"
      [] t = "candidate"  -> "candid"
      [] t = "years"      -> "year"
      [] t = "basis"      -> "basi"
      [] t = "experience" -> "experi"
      [] t = "developer"  -> "develop"
      [] t = "consultant" -> "consult"
      [] t = "experienced"  -> "experienc"
      [] t = "professional" -> "profession"
      [] t = "management"   -> "manag"
      [] t = "manager"      -> "manag"
      [] t = "entry"        -> "entri"
      [] t = "president"    -> "presid"
      [] OTHER            -> t

RECURSIVE SelectSeq2(_, _)
SelectSeq2(s, S) ==
    IF s = <<>> THEN <<>>
    ELSE IF Head(s) \in S THEN SelectSeq2(Tail(s), S)
         ELSE <<Head(s)>> \o SelectSeq2(Tail(s), S)

\* preprocess_text: lower, tokenize, drop stop words, stem.  A value that is
\* no str makes text.lower() raise; the handler returns [].
preprocess_text(v) ==
    IF ~IsStr(v) THEN <<>>
    ELSE LET tokens == SelectSeq2(Tokenize(Lower(v.val)), stop_words)
         IN  [i \in 1..Len(tokens) |-> Stem(tokens[i])]

(***************************************************************************)
(* extract_keywords_from_job_description.  word_freq is a dict: its items  *)
(* are in first-insertion order, and sorted() is stable, so tokens of      *)
(* equal frequency keep their first-encounter order.                       *)
(***************************************************************************)
TopKeywords == 20
MinKeywordLen == 2

Count(tokens, t) == Cardinality({i \in 1..Len(tokens) : tokens[i] = t})

RECURSIVE Distinct(_, _)
Distinct(tokens, seen) ==
    IF tokens = <<>> THEN <<>>
    ELSE IF Head(tokens) \in seen THEN Distinct(Tail(tokens), seen)
         ELSE <<Head(tokens)>> \o Distinct(Tail(tokens), seen \cup {Head(tokens)})

\* the keys of word_freq whose count is f, in insertion order
RECURSIVE WithFreq(_, _, _)
WithFreq(keys, tokens, f) ==
    IF keys = <<>> THEN <<>>
    ELSE IF Count(tokens, Head(keys)) = f
         THEN <<Head(keys)>> \o WithFreq(Tail(keys), tokens, f)
         ELSE WithFreq(Tail(keys), tokens, f)

\* sorted(word_freq.items(), key=freq, reverse=True), the words only
RECURSIVE SortedFrom(_, _, _)
SortedFrom(keys, tokens, f) ==
    IF f = 0 THEN <<>>
    ELSE WithFreq(keys, tokens, f) \o SortedFrom(keys, tokens, f - 1)

sorted_words(tokens) == SortedFrom(Distinct(tokens, {}), tokens, Len(tokens))

RECURSIVE LongerThan(_, _)
LongerThan(ws, n) ==
    IF ws = <<>> THEN <<>>
    ELSE IF Len(Head(ws)) > n THEN <<Head(ws)>> \o LongerThan(Tail(ws), n)
         ELSE LongerThan(Tail(ws), n)

\* [word for word, freq in sorted_words[:20] if len(word) > 2]
KeywordsOf(tokens) ==
    LET sw == sorted_words(tokens)
    IN  LongerThan(SubSeq(sw, 1, Min(TopKeywords, Len(sw))), MinKeywordLen)

extract_keywords_from_job_description(jd) == KeywordsOf(preprocess_text(jd))

(***************************************************************************)
(* extract_experience_requirement.  The six patterns, matched on the       *)
(* lower-case words.  WholeNum(w): w is digits with an optional '+' (what  *)
(* (\d+)\+? must be when a blank or keyword precedes it); NumEnd(w): the   *)
(* digits that end w before an optional '+' (what an unanchored (\d+)\+?   *)
(* followed by \s*years captures); RangeLow(w): the first group of         *)
(* (\d+)-(\d+).  -1 stands for no match.                                   *)
(***************************************************************************)
WholeNum(w) ==
    CASE w = "0"    -> 0
      [] w = "1"    -> 1
      [] w = "3"    -> 3
      [] w = "5"    -> 5
      [] w = "5+"   -> 5
      [] w = "7"    -> 7
      [] w = "10"   -> 10
      [] w = "12"   -> 12
      [] w = "1980" -> 1980
      [] w = "2015" -> 2015
      [] w = "2020" -> 2020
      [] w = "2030" -> 2030
      [] OTHER      -> -1

NumEnd(w) ==
    CASE w = "3-5"     -> 5
      [] w = "01/2018" -> 2018
      [] OTHER         -> WholeNum(w)

RangeLow(w) == IF w = "3-5" THEN 3 ELSE -1

IsYears(w) == w \in {"years", "yrs"}

At(ws, i) == IF i \in 1..Len(ws) THEN ws[i] ELSE ""

\* a word that begins with "experience"
StartsExperience(w) == w \in {"experience", "experienced"}

\* the phrase tail, which closes with "experience", read from word j on; the
\* expression ends there, so the last word need only begin with it
TailAt(ws, j, tail) ==
    /\ \A k \in 1..(Len(tail) - 1) : At(ws, j + k - 1) = tail[k]
    /\ StartsExperience(At(ws, j + Len(tail) - 1))

\* (?:years|yrs)(?:\s*of)?\s*<tail>, from word i on; tail is a phrase
YearsOfThen(ws, i, tail) ==
    /\ IsYears(At(ws, i))
    /\ \/ TailAt(ws, i + 1, tail)
       \/ At(ws, i + 1) = "of" /\ TailAt(ws, i + 2, tail)

\* the capture of pattern p at word i, -1 when it does not match there
PatternAt(p, ws, i) ==
    CASE p = 1 -> IF NumEnd(At(ws, i)) >= 0 /\ YearsOfThen(ws, i + 1, <<"experience">>)
                  THEN NumEnd(ws[i]) ELSE -1
      [] p = 2 -> IF NumEnd(At(ws, i)) >= 0 /\ YearsOfThen(ws, i + 1, <<"work", "experience">>)
                  THEN NumEnd(ws[i]) ELSE -1
      [] p = 3 -> IF At(ws, i) = "experience"
                  THEN IF WholeNum(At(ws, i + 1)) >= 0 /\ IsYears(At(ws, i + 2))
                       THEN WholeNum(ws[i + 1])
                       ELSE IF At(ws, i + 1) \in {"of", "with"}
                               /\ WholeNum(At(ws, i + 2)) >= 0 /\ IsYears(At(ws, i + 3))
                            THEN WholeNum(ws[i + 2]) ELSE -1
                  ELSE -1
      [] p = 4 -> IF At(ws, i) = "minimum"
                  THEN IF WholeNum(At(ws, i + 1)) >= 0 /\ IsYears(At(ws, i + 2))
                       THEN WholeNum(ws[i + 1])
                       ELSE IF At(ws, i + 1) = "of"
                               /\ WholeNum(At(ws, i + 2)) >= 0 /\ IsYears(At(ws, i + 3))
                            THEN WholeNum(ws[i + 2]) ELSE -1
                  ELSE -1
      [] p = 5 -> IF At(ws, i) = "at" /\ At(ws, i + 1) = "least"
                     /\ WholeNum(At(ws, i + 2)) >= 0 /\ IsYears(At(ws, i + 3))
                  THEN WholeNum(ws[i + 2]) ELSE -1
      [] p = 6 -> IF RangeLow(At(ws, i)) >= 0 /\ YearsOfThen(ws, i + 1, <<"experience">>)
                  THEN RangeLow(ws[i]) ELSE -1

NumPatterns == 6

\* re.findall(pattern, job_text)[0]: the capture of the leftmost match
RECURSIVE FirstMatch(_, _, _)
FirstMatch(p, ws, i) ==
    IF i > Len(ws) THEN -1
    ELSE IF PatternAt(p, ws, i) >= 0 THEN PatternAt(p, ws, i)
         ELSE FirstMatch(p, ws, i + 1)

\* for pattern in patterns: the first pattern with a match decides
RECURSIVE FirstPattern(_, _)
FirstPattern(p, ws) ==
    IF p > NumPatterns THEN 0
    ELSE IF FirstMatch(p, ws, 1) >= 0 THEN FirstMatch(p, ws, 1)
         ELSE FirstPattern(p + 1, ws)

extract_experience_requirement(jd) == FirstPattern(1, Lower(jd.val))

(***************************************************************************)
(* extract_seniority_level (job side).  \b(w1|w2)\b is a test on the       *)
(* tokens of the lower-case text, a two-word alternative a test on         *)
(* adjacent words.                                                         *)
(***************************************************************************)
HasToken(ws, S) == Range(Tokenize(ws)) \cap S # {}

HasPhrase(ws, P) ==
    \E ph \in P : \E i \in 1..Len(ws) :
        i + Len(ph) - 1 <= Len(ws) /\ SubSeq(ws, i, i + Len(ph) - 1) = ph

SapSeniorTitles == {<<"sap", "architect">>, <<"solution", "architect">>,
                    <<"technical", "architect">>, <<"lead", "architect">>,
                    <<"principal", "consultant">>}
SapLeadTitles == {<<"sap", "lead">>, <<"team", "lead">>, <<"project", "lead">>,
                  <<"senior", "basis">>, <<"senior", "consultant">>}
SapRoleWords == {"sap", "basis", "hana", "abap", "erp", "netweaver"}

\* thresholds of the experience-based fallback
SapSeniorYears == 10
SapLeadYears == 7
SapMidYears == 4
SeniorYears == 8
MidYears == 5
JuniorYears == 2

extract_seniority_level(jd) ==
    IF ~IsStr(jd) THEN "mid"      \* job_description.lower() raises: the handler
    ELSE
    LET job_text == Lower(jd.val)
        exp_years == extract_experience_requirement(jd)
    IN  IF HasPhrase(job_text, SapSeniorTitles) THEN "senior"
        ELSE IF HasPhrase(job_text, SapLeadTitles) THEN "lead"
        ELSE IF HasToken(job_text, {"chief", "cto", "cio", "ceo", "vp"})
                \/ HasPhrase(job_text, {<<"vice", "president">>}) THEN "executive"
        ELSE IF HasToken(job_text, {"director"}) THEN "director"
        ELSE IF HasToken(job_text, {"senior", "sr", "lead", "principal"}) THEN "senior"
        ELSE IF HasToken(job_text, {"manager", "management"}) THEN "manager"
        ELSE IF HasToken(job_text, {"mid", "intermediate", "experienced"}) THEN "mid"
        ELSE IF HasToken(job_text, {"junior", "jr"}) THEN "junior"
        ELSE IF HasToken(job_text, {"entry", "graduate", "trainee", "intern"}) THEN "entry"
        ELSE IF HasToken(job_text, SapRoleWords) \/ "s/4hana" \in Range(job_text)
             THEN IF exp_years >= SapSeniorYears THEN "senior"
                  ELSE IF exp_years >= SapLeadYears THEN "lead"
                  ELSE IF exp_years >= SapMidYears THEN "mid"
                  ELSE IF exp_years >= JuniorYears THEN "junior"
                  ELSE "entry"
             ELSE IF exp_years >= SeniorYears THEN "senior"
                  ELSE IF exp_years >= MidYears THEN "mid"
                  ELSE IF exp_years >= JuniorYears THEN "junior"
                  ELSE "entry"

(***************************************************************************)
(* Floats as exact rationals.                                              *)
(***************************************************************************)
RECURSIVE GCD(_, _)
GCD(a, b) == IF b = 0 THEN a ELSE GCD(b, a % b)

R(n, d) == LET g == GCD(n, d) IN [n |-> n \div g, d |-> d \div g]
RInt(k) == [n |-> k, d |-> 1]
RAdd(a, b) == R(a.n * b.d + b.n * a.d, a.d * b.d)
RTimes(a, k) == R(a.n * k, a.d)
ROver(a, k) == R(a.n, a.d * k)
RLeq(a, b) == a.n * b.d <= b.n * a.d
RMin(a, b) == IF RLeq(a, b) THEN a ELSE b

\* A float result is the exact value or a neighbour of it: "below", "exact"
\* or "above".  The error is far smaller than any difference of two distinct
\* values of the model, so it shows only where the exact value sits on a
\* threshold of a comparison or on a tie of round().
FloatError == {"below", "exact", "above"}

\* round(x, 1), in tenths, of a float with error fp; an exact tie goes to the
\* even tenth
RoundF(x, fp) ==
    LET q == (10 * x.n) \div x.d
        r == (10 * x.n) % x.d
    IN  IF 2 * r > x.d THEN q + 1
        ELSE IF 2 * r = x.d
             THEN CASE fp = "below" -> q
                    [] fp = "above" -> q + 1
                    [] fp = "exact" -> q + (q % 2)
        ELSE q

\* round(x, 1) of a sub-score: match_count / len * 100, years / required * 100
\* and level / required * 100 have denominators below 20 and so never tie
Round1(x) == RoundF(x, "exact")

\* a percentage as a number of tenths
Pct(p) == 10 * p

(***************************************************************************)
(* calculate_similarity.                                                   *)
(***************************************************************************)
\* weights, in hundredths
skill_weight == 50
sap_experience_weight == 35
std_experience_weight == 30
sap_seniority_weight == 20
std_seniority_weight == 15
context_weight == 5
sap_match_bonus == 15
HighCutoff == 75
MediumCutoff == 50

\* the result of the early return and of the exception handler
ZeroResult ==
    [score |-> 0, match_category |-> "Low", weighted_score |-> 0,
     skill_match_details |-> <<>>, experience_match |-> 0,
     seniority_match |-> 0, required_experience |-> 0]

\* Falsy with the empty str taken for a value: the early return misses ""
FalsyNoneOnly(v) == IsNone(v)

\* not x, for None and for a str
Falsy(v) == IsNone(v) \/ (IsStr(v) /\ v.val = <<>>)

\* the label of one skill (lines 85-100)
MatchLabel(skill, processed_job_desc, job_keywords) ==
    LET skill_tokens == Range(preprocess_text(skill))
    IN  IF \A token \in skill_tokens : token \in Range(processed_job_desc)
        THEN IF \E token \in skill_tokens : token \in Range(job_keywords)
             THEN "priority_match" ELSE "full_match"
        ELSE IF \E token \in skill_tokens : token \in Range(processed_job_desc)
             THEN "partial_match" ELSE "no_match"

\* match_count without the bonus of line 93 for a top keyword
MatchWeightNoBonus(label) ==
    CASE label = "priority_match" -> 10
      [] label = "full_match"     -> 10
      [] label = "partial_match"  -> 3
      [] label = "no_match"       -> 0

\* what a label adds to match_count, in tenths
MatchWeight(label) ==
    CASE label = "priority_match" -> 15
      [] label = "full_match"     -> 10
      [] label = "partial_match"  -> 3
      [] label = "no_match"       -> 0

RECURSIVE MatchCount(_, _, _)
MatchCount(sk, processed_job_desc, job_keywords) ==
    IF sk = <<>> THEN 0
    ELSE MatchWeight(MatchLabel(Head(sk), processed_job_desc, job_keywords))
         + MatchCount(Tail(sk), processed_job_desc, job_keywords)

\* matched_skills: a dict, one entry per distinct skill; a later duplicate
\* overwrites an equal label
MatchedSkills(sk, processed_job_desc, job_keywords) ==
    [s \in Range(sk) |-> MatchLabel(s, processed_job_desc, job_keywords)]

\* (match_count / len(skills)) * 100
BaseSkillSimilarity(sk, jd) ==
    R(10 * MatchCount(sk, preprocess_text(jd), extract_keywords_from_job_description(jd)),
      Len(sk))

\* skill.startswith('SAP')
StartsWithSAP(skill) == skill.val # <<>> /\ skill.val[1] \in {"SAP", "SAPUI5"}

\* any(skill.startswith('SAP') for skill in skills): "True", "False", or
\* "raise" when a value that is no str is reached before a match
RECURSIVE HasSapSkills(_)
HasSapSkills(sk) ==
    IF sk = <<>> THEN "False"
    ELSE IF ~IsStr(Head(sk)) THEN "raise"
    ELSE IF StartsWithSAP(Head(sk)) THEN "True"
    ELSE HasSapSkills(Tail(sk))

\* 'sap' in job_description.lower()
MentionedInJob(jd) == \E w \in Range(Lower(jd.val)) : w \in {"sap", "sapui5"}

SapContext(sk, jd) == HasSapSkills(sk) = "True" /\ MentionedInJob(jd)

\* lines 104-115
SkillSimilarity(sk, jd) ==
    IF SapContext(sk, jd)
    THEN RMin(RInt(100), RAdd(BaseSkillSimilarity(sk, jd), RInt(sap_match_bonus)))
    ELSE BaseSkillSimilarity(sk, jd)

\* lines 121-154 with the SAP branch of lines 128-137 taken for the standard
\* one of lines 138-144
ExperienceModifierNoLeniency(sap, ey, req_experience) ==
    IF req_experience # 0
    THEN IF ey >= req_experience THEN RInt(100)
         ELSE R(ey * 100, req_experience)
    ELSE IF ey >= 10 THEN RInt(100)
         ELSE IF ey >= 5 THEN RInt(85)
         ELSE IF ey >= 2 THEN RInt(70)
         ELSE RInt(50)

\* lines 121-154; ey is an int here
ExperienceModifier(sap, ey, req_experience) ==
    IF req_experience # 0
    THEN IF ey >= req_experience THEN RInt(100)
         ELSE IF sap /\ 10 * ey >= 8 * req_experience THEN RInt(90)
         ELSE R(ey * 100, req_experience)
    ELSE IF ey >= 10 THEN RInt(100)
         ELSE IF ey >= 5 THEN RInt(85)
         ELSE IF ey >= 2 THEN RInt(70)
         ELSE RInt(50)

\* seniority_map without the key 'entry'
SeniorityMapWithoutEntry(level) ==
    CASE level = "junior"    -> 2
      [] level = "mid"       -> 3
      [] level = "senior"    -> 4
      [] level = "lead"      -> 5
      [] level = "manager"   -> 5
      [] level = "director"  -> 6
      [] level = "executive" -> 7
      [] OTHER               -> 0

\* seniority_map.get(level.lower(), 0)
SeniorityMap(level) ==
    CASE level = "entry"     -> 1
      [] level = "junior"    -> 2
      [] level = "mid"       -> 3
      [] level = "senior"    -> 4
      [] level = "lead"      -> 5
      [] level = "manager"   -> 5
      [] level = "director"  -> 6
      [] level = "executive" -> 7
      [] OTHER               -> 0

BaselineLevel == 3

\* candidate_level of line 177, for a str
CandidateLevel(sl) == IF Len(sl.val) = 1 THEN SeniorityMap(Lower(sl.val)[1]) ELSE 0

\* lines 180-200
SeniorityModifier(sap, candidate_level, required_level) ==
    IF required_level > 0
    THEN IF candidate_level >= required_level THEN RInt(100)
         ELSE IF sap /\ required_level - candidate_level <= 1 THEN RInt(85)
         ELSE R(candidate_level * 100, required_level)
    ELSE IF candidate_level >= BaselineLevel THEN RInt(100)
         ELSE R(candidate_level * 100, BaselineLevel)

\* lines 203-213
ContextFactors(sk, jd) ==
    IF SapContext(sk, jd) /\ Str(<<"SAP", "BASIS">>) \in Range(sk)
    THEN IF HasPhrase(Lower(jd.val), {<<"basis", "adm">>, <<"basis", "consultant">>,
                                      <<"basis", "admin">>, <<"basis", "specialist">>})
         THEN 100
         ELSE IF "SAP" \in Range(jd.val) /\ "BASIS" \in Range(jd.val) THEN 80
         ELSE 0
    ELSE 0

\* x >= cutoff for the float x with error fp
FloatGeq(x, fp, cutoff) ==
    IF x = RInt(cutoff) THEN fp # "below" ELSE RLeq(RInt(cutoff), x)

\* lines 236-240, on the unrounded weighted score
MatchCategory(weighted_score, fp) ==
    IF FloatGeq(weighted_score, fp, HighCutoff) THEN "High"
    ELSE IF FloatGeq(weighted_score, fp, MediumCutoff) THEN "Medium"
    ELSE "Low"

\* the normalization with every weight in the denominator, supplied or not
WeightedScoreAllWeights(skill_similarity, ey, experience_modifier, experience_weight, sl, seniority_modifier, seniority_weight, context_factors) ==
    LET w1 == RTimes(skill_similarity, skill_weight)
        w2 == IF ~IsNone(ey) THEN RAdd(w1, RTimes(experience_modifier, experience_weight))
              ELSE w1
        w3 == IF ~IsNone(sl) THEN RAdd(w2, RTimes(seniority_modifier, seniority_weight))
              ELSE w2
        w4 == RAdd(w3, RInt(context_factors * context_weight))
    IN  ROver(w4, skill_weight + experience_weight + seniority_weight + context_weight)

\* lines 216-233: sum(subscore * weight) / sum(weight) over the supplied factors
WeightedScore(skill_similarity, ey, experience_modifier, experience_weight, sl, seniority_modifier, seniority_weight, context_factors) ==
    LET w1 == RTimes(skill_similarity, skill_weight)
        w2 == IF ~IsNone(ey) THEN RAdd(w1, RTimes(experience_modifier, experience_weight))
              ELSE w1
        w3 == IF ~IsNone(sl) THEN RAdd(w2, RTimes(seniority_modifier, seniority_weight))
              ELSE w2
        w4 == RAdd(w3, RInt(context_factors * context_weight))
        total_weight == skill_weight
                        + (IF ~IsNone(ey) THEN experience_weight ELSE 0)
                        + (IF ~IsNone(sl) THEN seniority_weight ELSE 0)
                        + context_weight
    IN  ROver(w4, total_weight)

\* a statement of the try block raises
Raises(sk, jd, ey, sl) ==
    \/ HasSapSkills(sk) = "raise"             \* skill.startswith, line 109
    \/ ~IsNone(sl) /\ ~IsStr(sl)                \* seniority_level.lower(), line 177

\* the try block (lines 62-254) up to the normalized weighted score: what it
\* returns, or that it raises; unrounded holds the weighted score of line 233
TryBody(sk, jd, ey, sl) ==
    IF sk = <<>> \/ Falsy(jd)
    THEN [raised |-> FALSE, early |-> TRUE, value |-> ZeroResult, unrounded |-> RInt(0)]
    ELSE IF Raises(sk, jd, ey, sl)
    THEN [raised |-> TRUE, early |-> FALSE, value |-> <<>>, unrounded |-> RInt(0)]
    ELSE
    LET sap == SapContext(sk, jd)
        skill_similarity == SkillSimilarity(sk, jd)
        experience_weight == IF sap THEN sap_experience_weight ELSE std_experience_weight
        req_experience == IF ~IsNone(ey) THEN extract_experience_requirement(jd) ELSE 0
        experience_modifier ==
            IF ~IsNone(ey) THEN ExperienceModifier(sap, ey.val, req_experience) ELSE RInt(0)
        seniority_weight == IF sap THEN sap_seniority_weight ELSE std_seniority_weight
        seniority_modifier ==
            IF ~IsNone(sl)
            THEN SeniorityModifier(sap,
                     CandidateLevel(sl),
                     SeniorityMap(extract_seniority_level(jd)))
            ELSE RInt(0)
        context_factors == ContextFactors(sk, jd)
        weighted_score ==
            WeightedScore(skill_similarity, ey, experience_modifier, experience_weight,
                          sl, seniority_modifier, seniority_weight, context_factors)
    IN  [raised |-> FALSE, early |-> FALSE, unrounded |-> weighted_score, value |->
        [score |-> Round1(skill_similarity),
         skill_match_details |->
             MatchedSkills(sk, preprocess_text(jd), extract_keywords_from_job_description(jd)),
         experience_match |-> Round1(experience_modifier),
         seniority_match |-> Round1(seniority_modifier),
         context_match |-> Pct(context_factors),
         required_experience |-> req_experience]]

\* lines 235-254: the category of the unrounded float, the rounded score
Report(body, fp) ==
    IF body.early THEN body.value
    ELSE [score |-> body.value.score,
          match_category |-> MatchCategory(body.unrounded, fp),
          weighted_score |-> RoundF(body.unrounded, fp),
          skill_match_details |-> body.value.skill_match_details,
          experience_match |-> body.value.experience_match,
          seniority_match |-> body.value.seniority_match,
          context_match |-> body.value.context_match,
          required_experience |-> body.value.required_experience]

\* lines 61-266: except Exception returns the all-zero result
Handled(body, fp) ==
    IF body.raised THEN [raised |-> FALSE, value |-> ZeroResult]
    ELSE [raised |-> FALSE, value |-> Report(body, fp)]

calculate_similarity(sk, jd, ey, sl, fp) == Handled(TryBody(sk, jd, ey, sl), fp)

(***************************************************************************)
(* The inputs of one call of calculate_similarity.                         *)
(***************************************************************************)
MaxSkills == 2
MaxYears == 6

SkillPool == {Str(<<"Python">>), Str(<<"Go">>), Str(<<"SAP">>),
              Str(<<"SAP", "BASIS">>), NonStr}

\* the skills of the scenario of the testable properties
ScenarioSkills == <<Str(<<"Python">>), Str(<<"SAP">>), Str(<<"BASIS">>)>>
ScenarioJob == Str(<<"Looking", "for", "a", "candidate", "with", "5+", "years",
                     "SAP", "BASIS", "experience">>)
\* a partial, a full and a priority match against ChiefJob
MixedSkills == <<Str(<<"SAP", "BASIS">>), Str(<<"Go">>), Str(<<"Python">>)>>
ChiefJob == Str(<<"Chief", "Python", "Go", "BASIS", "5", "years", "experience">>)
\* an executive SAP role that requires 12 years
ChiefSapJob == Str(<<"Chief", "SAP", "12", "years", "experience">>)

SkillLists == SeqsUpTo(SkillPool, MaxSkills) \cup {ScenarioSkills, MixedSkills}

JobDescriptions ==
    {ScenarioJob, ChiefJob, ChiefSapJob} \cup
    {Str(jd) : jd \in
        {<<>>,
         <<"Python">>,
         <<"Python", "and", "Go", "developer">>,
         <<"SAP">>,
         <<"SAP", "BASIS", "admin">>,
         <<"senior", "SAP", "BASIS", "consultant">>,
         <<"3-5", "years", "of", "experience">>,
         <<"minimum", "7", "years", "sap", "lead">>,
         <<"junior", "Python", "developer">>,
         <<"10", "years", "of", "experience", "sap">>,
         <<"5", "years", "work", "experience">>,
         <<"at", "least", "3", "years">>,
         <<"experience", "of", "5", "years", "Go">>}}

\* the years up to MaxYears, the 10 years of the top band of lines 147-148,
\* and 11 years
TopBandYears == 10
ExperienceInputs ==
    {None} \cup {PyInt(n) : n \in 0..MaxYears} \cup {PyInt(TopBandYears), PyInt(TopBandYears + 1)}

SeniorityInputs == {None, NonStr, Str(<<"junior">>), Str(<<"mid">>),
                    Str(<<"Senior">>), Str(<<"director">>), Str(<<"guru">>)}

ScoreIdle ==
    /\ skills = <<>> /\ job_description = Str(<<>>) /\ experience_years = None
    /\ seniority_level = None /\ result = <<>> /\ pc = "idle"
BatchIdle ==
    /\ files = <<>> /\ file_idx = 0 /\ results = <<>> /\ parsed_resumes = <<>>
    /\ upload_dir = <<>> /\ batch_pc = "idle"
SkillIdle == text = <<>> /\ found_skills = <<>> /\ skill_pc = "idle"
NameIdle == name_text = <<>> /\ name = <<>> /\ name_pc = "idle"
CallIdle == callee = "idle" /\ arg = <<>> /\ ret = <<>>

Init ==
    /\ skills \in SkillLists
    /\ job_description \in JobDescriptions
    /\ experience_years \in ExperienceInputs
    /\ seniority_level \in SeniorityInputs
    /\ result = <<>>
    /\ pc = "call"
    /\ BatchIdle /\ SkillIdle /\ NameIdle /\ CallIdle

\* the call runs to its return, or raises to the caller
CalculateSimilarity ==
    /\ pc = "call"
    /\ \E body \in {TryBody(skills, job_description, experience_years, seniority_level)} :
       \E fp \in FloatError :
           \E out \in {Handled(body, fp)} :
               /\ pc' = IF out.raised THEN "raise" ELSE "return"
               /\ result' = out.value
    /\ UNCHANGED <<skills, job_description, experience_years, seniority_level>>
    /\ UNCHANGED <<batch_vars, skill_vars, name_vars, call_vars>>

Next == CalculateSimilarity

Spec == Init /\ [][Next]_vars

\* the same call with every float taken for the exact value
CalculateSimilarityExact ==
    /\ pc = "call"
    /\ \E out \in {calculate_similarity(skills, job_description, experience_years,
                                        seniority_level, "exact")} :
           /\ pc' = IF out.raised THEN "raise" ELSE "return"
           /\ result' = out.value
    /\ UNCHANGED <<skills, job_description, experience_years, seniority_level>>
    /\ UNCHANGED <<batch_vars, skill_vars, name_vars, call_vars>>

NextExact == CalculateSimilarityExact

SpecExact == Init /\ [][NextExact]_vars

(***************************************************************************)
(* Properties of calculate_similarity.                                     *)
(***************************************************************************)
Returned == pc = "return"

\* C1: with an empty skills list (any job description) or an empty job
\* description (any skills, experience_years, seniority_level) the call
\* returns score 0, weighted_score 0, match_category 'Low', and
\* experience_match, seniority_match and required_experience all 0.
C1_EmptyInputZeroResult ==
    (pc # "call" /\ (skills = <<>> \/ job_description.val = <<>>))
        => /\ Returned
           /\ result.score = 0
           /\ result.weighted_score = 0
           /\ result.match_category = "Low"
           /\ result.experience_match = 0
           /\ result.seniority_match = 0
           /\ result.required_experience = 0

\* an empty job description with skills, experience and seniority supplied
C1_Witness ==
    /\ Returned
    /\ job_description.val = <<>>
    /\ Len(skills) = MaxSkills
    /\ ~IsNone(experience_years)
    /\ seniority_level = Str(<<"mid">>)
    /\ result.weighted_score = 0

\* C2: with non-empty skills and a non-empty job description the returned
\* skill score lies in 0..100.
C2_SkillScoreInRange ==
    (Returned /\ skills # <<>> /\ job_description.val # <<>>)
        => (0 <= result.score /\ result.score <= Pct(100))

\* C3: for every call the returned weighted_score lies in 0..100.
C3_WeightedScoreInRange ==
    Returned => (0 <= result.weighted_score /\ result.weighted_score <= Pct(100))

\* the category the cutoffs give to a reported (one-decimal) weighted score
CategoryOfReported(tenths) ==
    IF tenths >= Pct(HighCutoff) THEN "High"
    ELSE IF tenths >= Pct(MediumCutoff) THEN "Medium"
    ELSE "Low"

\* C4: in every result, match_category is the step function of the returned
\* (rounded) weighted_score: High iff >= 75, Medium iff >= 50 and < 75, Low
\* otherwise.
C4_CategoryIsStepOfReportedScore ==
    Returned => result.match_category = CategoryOfReported(result.weighted_score)

\* all tokens of the skill, and at least one, are tokens of the job description
TokensAppearInJob(skill, jd) ==
    /\ IsStr(skill)
    /\ preprocess_text(skill) # <<>>
    /\ Range(preprocess_text(skill)) \subseteq Range(preprocess_text(jd))

\* C5: appending one further skill whose tokens appear in the job description
\* never yields a lower skill score than the call without it, all other
\* inputs identical.
C5_MatchingSkillNeverLowersScore ==
    Returned =>
        \A s \in SkillPool : TokensAppearInJob(s, job_description) =>
            \A fp \in FloatError :
                calculate_similarity(Append(skills, s), job_description,
                                     experience_years, seniority_level, fp).value.score
                    >= result.score

\* C6: the scenario (skills Python, SAP, BASIS; "Looking for a candidate with
\* 5+ years SAP BASIS experience"; 6 years; "mid") reports required_experience
\* 5 and experience_match 100, with match_category High or Medium.
C6_ScenarioReportsRequirement ==
    (/\ Returned
     /\ skills = ScenarioSkills
     /\ job_description = ScenarioJob
     /\ experience_years = PyInt(6)
     /\ seniority_level = Str(<<"mid">>))
        => /\ result.required_experience = 5
           /\ result.experience_match = Pct(100)
           /\ result.match_category \in {"High", "Medium"}

\* a step of the computation raises: text.lower() in preprocess_text for a
\* skill that is no str, or seniority_level.lower() for a level that is no str
SomeStepFaults ==
    /\ skills # <<>> /\ ~Falsy(job_description)
    /\ \/ \E i \in 1..Len(skills) : ~IsStr(skills[i])
       \/ ~IsNone(seniority_level) /\ ~IsStr(seniority_level)

\* C7: the call never raises to its caller, and whenever a step of the
\* computation faults it returns the all-zero result (score 0, weighted_score
\* 0, match_category 'Low').
C7_FaultGivesZeroResult ==
    pc # "call" =>
        /\ Returned
        /\ SomeStepFaults =>
              /\ result.score = 0
              /\ result.weighted_score = 0
              /\ result.match_category = "Low"

(***************************************************************************)
(* Batch parsing: parse_resume_file, parse_resumes (a folder) and the       *)
(* upload loop of process.  A file is [filename, is_file, content]; the    *)
(* content "corrupt" makes the text extractor raise, any other content is  *)
(* the text the extractor returns.                                         *)
(***************************************************************************)
MaxFiles == 3

\* Path(...).suffix.lower() of a file name
Suffix(filename) ==
    CASE filename \in {"cv.pdf"}                    -> ".pdf"
      [] filename \in {"my cv.docx", "my_cv.docx"}  -> ".docx"
      [] filename \in {"CV.TXT"}                    -> ".txt"
      [] filename \in {"notes.exe"}                 -> ".exe"
      [] OTHER                                      -> ""

supported_extensions == {".pdf", ".docx", ".doc", ".txt"}

\* werkzeug.utils.secure_filename
secure_filename(filename) ==
    CASE filename = "my cv.docx" -> "my_cv.docx"
      [] filename = "???"        -> ""
      [] filename = "??.pdf"     -> "pdf"
      [] OTHER                   -> filename

\* extract_data_from_text: the six fields, a function of the text alone
extract_data_from_text(content) == [extracted_from |-> content]

\* parse_resume_file without its handler: an extraction error reaches the caller
ParseResumeFileUnhandled(filename, content) ==
    IF Suffix(filename) \notin {".pdf", ".docx", ".doc", ".txt"}
    THEN [raised |-> FALSE, parsed |-> FALSE, data |-> <<>>]
    ELSE IF content = "corrupt"
    THEN [raised |-> TRUE, parsed |-> FALSE, data |-> <<>>]
    ELSE [raised |-> FALSE, parsed |-> TRUE, data |-> extract_data_from_text(content)]

\* parse_resume_file (lines 21-43): None for an unsupported type and, from
\* the handler, for any exception of the extraction; parsed is the truth
\* value of the returned parsed_data
parse_resume_file(filename, content) ==
    IF Suffix(filename) \notin {".pdf", ".docx", ".doc", ".txt"}
    THEN [raised |-> FALSE, parsed |-> FALSE, data |-> <<>>]
    ELSE IF content = "corrupt"
    THEN [raised |-> FALSE, parsed |-> FALSE, data |-> <<>>]
    ELSE [raised |-> FALSE, parsed |-> TRUE, data |-> extract_data_from_text(content)]

\* parsed_data with file_name and file_path set by the caller
Record(data, file_name, file_path) ==
    [data |-> data, file_name |-> file_name, file_path |-> file_path]

FolderEntries ==
    {[filename |-> "cv.pdf",     is_file |-> TRUE,  content |-> "alice"],
     [filename |-> "cv.pdf",     is_file |-> TRUE,  content |-> "corrupt"],
     [filename |-> "CV.TXT",     is_file |-> TRUE,  content |-> "bob"],
     [filename |-> "my cv.docx", is_file |-> TRUE,  content |-> "corrupt"],
     [filename |-> "notes.exe",  is_file |-> TRUE,  content |-> "alice"],
     [filename |-> "old.pdf",    is_file |-> FALSE, content |-> "corrupt"]}

Uploads ==
    {[filename |-> "cv.pdf",     is_file |-> TRUE, content |-> "alice"],
     [filename |-> "cv.pdf",     is_file |-> TRUE, content |-> "corrupt"],
     [filename |-> "CV.TXT",     is_file |-> TRUE, content |-> "bob"],
     [filename |-> "my cv.docx", is_file |-> TRUE, content |-> "carol"],
     [filename |-> "notes.exe",  is_file |-> TRUE, content |-> "alice"],
     [filename |-> "???",        is_file |-> TRUE, content |-> "bob"],
     [filename |-> "??.pdf",     is_file |-> TRUE, content |-> "carol"],
     [filename |-> "",           is_file |-> TRUE, content |-> "alice"]}

\* the names of a folder are distinct
DistinctNames(fs) ==
    \A i, j \in 1..Len(fs) : fs[i].filename = fs[j].filename => i = j

BatchInit ==
    /\ \/ batch_pc = "parse_resumes"
          /\ files \in {fs \in SeqsUpTo(FolderEntries, MaxFiles) : DistinctNames(fs)}
       \/ batch_pc = "process"
          \* the loop is reached only past the test of line 48
          /\ files \in {fs \in SeqsUpTo(Uploads, MaxFiles) :
                            fs # <<>> /\ fs[1].filename # ""}
    /\ file_idx = 1
    /\ results = <<>>
    /\ parsed_resumes = <<>>
    /\ upload_dir = <<>>
    /\ ScoreIdle /\ SkillIdle /\ NameIdle /\ CallIdle

\* one pass of the loop of parse_resumes (lines 62-68); the function has no
\* handler of its own, so an exception of parse_resume_file ends it
ParseResumesStep ==
    /\ batch_pc = "parse_resumes"
    /\ file_idx <= Len(files)
    /\ LET f == files[file_idx]
       IN  IF f.is_file /\ Suffix(f.filename) \in supported_extensions
           THEN \E out \in {parse_resume_file(f.filename, f.content)} :
                   IF out.raised
                   THEN /\ batch_pc' = "raised"
                        /\ UNCHANGED <<results, file_idx>>
                   ELSE /\ results' = IF out.parsed
                                      THEN Append(results,
                                               Record(out.data, f.filename,
                                                      <<"folder", f.filename>>))
                                      ELSE results
                        /\ file_idx' = file_idx + 1
                        /\ UNCHANGED batch_pc
           ELSE /\ file_idx' = file_idx + 1
                /\ UNCHANGED <<results, batch_pc>>
    /\ UNCHANGED <<files, parsed_resumes, upload_dir>>
    /\ UNCHANGED <<score_vars, skill_vars, name_vars, call_vars>>

\* return results (line 70)
ParseResumesReturn ==
    /\ batch_pc = "parse_resumes"
    /\ file_idx > Len(files)
    /\ batch_pc' = "returned"
    /\ UNCHANGED <<files, file_idx, results, parsed_resumes, upload_dir>>
    /\ UNCHANGED <<score_vars, skill_vars, name_vars, call_vars>>

\* one pass of the upload loop of process (lines 59-80): the file is saved
\* under its secured name and parsed from there; the handler of the pass
\* logs any exception and the loop goes on
ProcessStep ==
    /\ batch_pc = "process"
    /\ file_idx <= Len(files)
    /\ LET file == files[file_idx]
           filename == secure_filename(file.filename)
       IN  IF file.filename # ""
           THEN IF filename = ""
                THEN \* file.save(upload_dir + "/") raises; caught
                     UNCHANGED <<parsed_resumes, upload_dir>>
                ELSE /\ upload_dir' = [n \in DOMAIN upload_dir \cup {filename} |->
                                          IF n = filename THEN file.content
                                          ELSE upload_dir[n]]
                     /\ \E out \in {parse_resume_file(filename, upload_dir'[filename])} :
                           parsed_resumes' =
                               IF ~out.raised /\ out.parsed
                               THEN Append(parsed_resumes,
                                        Record(out.data, filename,
                                               <<"upload_dir", filename>>))
                               ELSE parsed_resumes
           ELSE UNCHANGED <<parsed_resumes, upload_dir>>
    /\ file_idx' = file_idx + 1
    /\ UNCHANGED <<files, results, batch_pc>>
    /\ UNCHANGED <<score_vars, skill_vars, name_vars, call_vars>>

\* the loop is over (line 82)
ProcessLoopEnd ==
    /\ batch_pc = "process"
    /\ file_idx > Len(files)
    /\ batch_pc' = "loop_done"
    /\ UNCHANGED <<files, file_idx, results, parsed_resumes, upload_dir>>
    /\ UNCHANGED <<score_vars, skill_vars, name_vars, call_vars>>

BatchNext ==
    \/ ParseResumesStep
    \/ ParseResumesReturn
    \/ ProcessStep
    \/ ProcessLoopEnd

SpecBatch == BatchInit /\ [][BatchNext]_vars

(***************************************************************************)
(* C8                                                                      *)
(***************************************************************************)
\* a file parses successfully: a supported extension and an extraction
\* that does not fail
ParsesSuccessfully(filename, content) ==
    /\ Suffix(filename) \in {".pdf", ".docx", ".doc", ".txt"}
    /\ content # "corrupt"

RECURSIVE FolderRecords(_)
FolderRecords(fs) ==
    IF fs = <<>> THEN <<>>
    ELSE LET f == fs[Len(fs)]
             before == FolderRecords(SubSeq(fs, 1, Len(fs) - 1))
         IN  IF f.is_file /\ ParsesSuccessfully(f.filename, f.content)
             THEN Append(before,
                      [data |-> extract_data_from_text(f.content),
                       file_name |-> f.filename,
                       file_path |-> <<"folder", f.filename>>])
             ELSE before

\* an upload is known to the batch by its secured name
RECURSIVE UploadRecords(_)
UploadRecords(fs) ==
    IF fs = <<>> THEN <<>>
    ELSE LET f == fs[Len(fs)]
             stored == secure_filename(f.filename)
             before == UploadRecords(SubSeq(fs, 1, Len(fs) - 1))
         IN  IF ParsesSuccessfully(stored, f.content)
             THEN Append(before,
                      [data |-> extract_data_from_text(f.content),
                       file_name |-> stored,
                       file_path |-> <<"upload_dir", stored>>])
             ELSE before

\* C8: batch isolation.  parse_resumes and the upload loop of process never
\* end with an exception; after every pass, and so at completion, the list
\* built so far holds exactly the records of the files handled so far that
\* parse successfully, in input order, each with the data of its own
\* content and its own file_name and file_path.  A file that fails in
\* extraction or has an unsupported extension adds nothing and changes no
\* other record.
C8_BatchIsolation ==
    /\ batch_pc # "raised"
    /\ batch_pc \in {"parse_resumes", "returned"} =>
           results = FolderRecords(SubSeq(files, 1, file_idx - 1))
    /\ batch_pc \in {"process", "loop_done"} =>
           parsed_resumes = UploadRecords(SubSeq(files, 1, file_idx - 1))
    /\ batch_pc = "returned" => file_idx = Len(files) + 1
    /\ batch_pc = "loop_done" => file_idx = Len(files) + 1

\* a folder batch that completed with a failing file ahead of a file that
\* parsed, and an unsupported file in it
C8_Witness ==
    /\ batch_pc = "returned"
    /\ Len(files) = 3
    /\ files[1].content = "corrupt" /\ files[1].is_file
    /\ Suffix(files[1].filename) \in supported_extensions
    /\ Suffix(files[2].filename) \notin supported_extensions
    /\ ParsesSuccessfully(files[3].filename, files[3].content)
    /\ Len(results) = 1
    /\ results[1].file_name = files[3].filename

(***************************************************************************)
(* Text as characters.  extract_skills and extract_name work on the        *)
(* characters of the text: a text is the sequence of its characters, and   *)
(* the regular expressions are evaluated on that sequence.                 *)
(***************************************************************************)
UpperCaseLetters ==
    <<"A", "B", "C", "D", "E", "F", "G", "H", "I", "J", "K", "L", "M",
      "N", "O", "P", "Q", "R", "S", "T", "U", "V", "W", "X", "Y", "Z">>
LowerCaseLetters ==
    <<"a", "b", "c", "d", "e", "f", "g", "h", "i", "j", "k", "l", "m",
      "n", "o", "p", "q", "r", "s", "t", "u", "v", "w", "x", "y", "z">>
DigitChars == {"0", "1", "2", "3", "4", "5", "6", "7", "8", "9"}

\* the characters of a string literal of the source or of an input
Chars(s) ==
    CASE s = "Python" -> <<"P", "y", "t", "h", "o", "n">>
      [] s = "C++" -> <<"C", "+", "+">>
      [] s = "C#" -> <<"C", "#">>
      [] s = "Go" -> <<"G", "o">>
      [] s = "R" -> <<"R">>
      [] s = "SAP" -> <<"S", "A", "P">>
      [] s = "SAP BASIS" -> <<"S", "A", "P", " ", "B", "A", "S", "I", "S">>
      [] s = "BASIS" -> <<"B", "A", "S", "I", "S">>
      [] s = "c++" -> <<"c", "+", "+">>
      [] s = "c#" -> <<"c", "#">>
      [] s = "go" -> <<"g", "o">>
      [] s = "basis" -> <<"b", "a", "s", "i", "s">>
      [] s = "x" -> <<"x">>
      [] s = " " -> <<" ">>
      [] s = "\n" -> <<"\n">>
      [] s = "," -> <<",">>
      [] s = ":" -> <<":">>
      [] s = "skills:" -> <<"s", "k", "i", "l", "l", "s", ":">>
      [] s = "skills" -> <<"s", "k", "i", "l", "l", "s">>
      [] s = "expertise" -> <<"e", "x", "p", "e", "r", "t", "i", "s", "e">>
      [] s = "proficiency" -> <<"p", "r", "o", "f", "i", "c", "i", "e", "n", "c", "y">>
      [] s = "knowledge" -> <<"k", "n", "o", "w", "l", "e", "d", "g", "e">>
      [] s = "competency" -> <<"c", "o", "m", "p", "e", "t", "e", "n", "c", "y">>
      [] s = "competencies" -> <<"c", "o", "m", "p", "e", "t", "e", "n", "c", "i", "e", "s">>
      [] s = "Ann Lee" -> <<"A", "n", "n", " ", "L", "e", "e">>
      [] s = "Bo" -> <<"B", "o">>
      [] s = "a@b.c" -> <<"a", "@", "b", ".", "c">>
      [] s = "555 123 4567" -> <<"5", "5", "5", " ", "1", "2", "3", " ", "4", "5", "6", "7">>
      [] s = "\n\n\n\n\n" -> <<"\n", "\n", "\n", "\n", "\n">>
      [] s = "Unknown" -> <<"U", "n", "k", "n", "o", "w", "n">>
      [] s = "x49" -> [i \in 1..49 |-> "x"]
      [] s = "x50" -> [i \in 1..50 |-> "x"]

\* str.lower(), and the folding of re.IGNORECASE, on one character
LowerChar(c) ==
    IF \E i \in 1..26 : UpperCaseLetters[i] = c
    THEN LowerCaseLetters[CHOOSE i \in 1..26 : UpperCaseLetters[i] = c]
    ELSE c

LowerChars(t) == [i \in 1..Len(t) |-> LowerChar(t[i])]

\* \w
IsWordChar(c) ==
    c \in Range(UpperCaseLetters) \cup Range(LowerCaseLetters) \cup DigitChars \cup {"_"}

\* \s
IsSpace(c) == c \in {" ", "\n", "\t", "\r"}

WordAt(t, i) == i \in 1..Len(t) /\ IsWordChar(t[i])

\* \b between t[g] and t[g+1]: a word character on exactly one side
WordBoundary(t, g) == WordAt(t, g) # WordAt(t, g + 1)

\* the literal p, read from t[i] on
LiteralAt(p, t, i) ==
    /\ i >= 1
    /\ i + Len(p) - 1 <= Len(t)
    /\ \A k \in 1..Len(p) : t[i + k - 1] = p[k]

\* p in t
Contains(p, t) == \E i \in 1..(Len(t) + 1) : LiteralAt(p, t, i)

\* str.strip()
RECURSIVE LStrip(_)
LStrip(t) == IF t # <<>> /\ IsSpace(Head(t)) THEN LStrip(Tail(t)) ELSE t

RECURSIVE RStrip(_)
RStrip(t) ==
    IF t # <<>> /\ IsSpace(t[Len(t)]) THEN RStrip(SubSeq(t, 1, Len(t) - 1)) ELSE t

Strip(t) == RStrip(LStrip(t))

\* re.split on a set of separator characters, and str.split on one
RECURSIVE SplitOn(_, _)
SplitOn(seps, t) ==
    IF \A i \in 1..Len(t) : t[i] \notin seps
    THEN <<t>>
    ELSE LET i == CHOOSE k \in 1..Len(t) :
                      t[k] \in seps /\ \A m \in 1..(k - 1) : t[m] \notin seps
         IN  <<SubSeq(t, 1, i - 1)>> \o SplitOn(seps, SubSeq(t, i + 1, Len(t)))

(***************************************************************************)
(* extract_skills.                                                         *)
(***************************************************************************)
\* the entries of common_skills the inputs can mention, in the order of the
\* source list
common_skills == <<"Python", "C++", "C#", "Go", "R", "SAP", "SAP BASIS", "BASIS">>

\* the words that open a skill section in the fallback expression
SectionHeaders ==
    {"skills", "expertise", "proficiency", "knowledge", "competency", "competencies"}

MinSkillsBeforeFallback == 3
MinItemLen == 2
MaxItemLen == 50

\* re.search(r'\b' + re.escape(skill) + r'\b', text, re.IGNORECASE)
SearchSkill(skill, t) ==
    \E i \in 1..Len(t) :
        /\ WordBoundary(t, i - 1)
        /\ LiteralAt(LowerChars(Chars(skill)), LowerChars(t), i)
        /\ WordBoundary(t, i - 1 + Len(Chars(skill)))

\* the first loop (lines 334-338)
RECURSIVE SearchAll(_, _)
SearchAll(k, t) ==
    IF k > Len(common_skills) THEN <<>>
    ELSE (IF SearchSkill(common_skills[k], t) THEN <<common_skills[k]>> ELSE <<>>)
         \o SearchAll(k + 1, t)

\* lines 341-342
WithSapBasis(found) ==
    IF "BASIS" \in Range(found) /\ "SAP" \in Range(found) /\ "SAP BASIS" \notin Range(found)
    THEN Append(found, "SAP BASIS")
    ELSE found

\* [:\s]
IsHeaderSep(c) == c = ":" \/ IsSpace(c)

\* a header word followed by at least one of [:\s], read from t[i] on
HeaderAt(t, i) ==
    \E h \in SectionHeaders :
        /\ LiteralAt(Chars(h), t, i)
        /\ i + Len(Chars(h)) <= Len(t)
        /\ IsHeaderSep(t[i + Len(Chars(h))])

HeaderLen(t, i) ==
    Len(Chars(CHOOSE h \in SectionHeaders :
                  /\ LiteralAt(Chars(h), t, i)
                  /\ i + Len(Chars(h)) <= Len(t)
                  /\ IsHeaderSep(t[i + Len(Chars(h))])))

\* the end of the greedy run [:\s]+ that starts at t[j]: the first position
\* that is none of these characters
RECURSIVE SepRunEnd(_, _)
SepRunEnd(t, j) ==
    IF j <= Len(t) /\ IsHeaderSep(t[j]) THEN SepRunEnd(t, j + 1) ELSE j

\* (.*?)(?:\n\n|\Z) from t[j] on: the first blank line, else the end
RECURSIVE SectionEnd(_, _)
SectionEnd(t, j) ==
    IF j > Len(t) THEN j
    ELSE IF j < Len(t) /\ t[j] = "\n" /\ t[j + 1] = "\n" THEN j
    ELSE SectionEnd(t, j + 1)

\* re.findall of the section expression with re.DOTALL, scanning from t[pos]
RECURSIVE skill_sections(_, _)
skill_sections(t, pos) ==
    IF \A i \in pos..Len(t) : ~HeaderAt(t, i)
    THEN <<>>
    ELSE LET i == CHOOSE k \in pos..Len(t) :
                      HeaderAt(t, k) /\ \A m \in pos..(k - 1) : ~HeaderAt(t, m)
             j == SepRunEnd(t, i + HeaderLen(t, i))
             e == SectionEnd(t, j)
         IN  <<SubSeq(t, j, e - 1)>> \o skill_sections(t, IF e > Len(t) THEN e ELSE e + 2)

\* lines 358-360 for one item
RECURSIVE AddKnownSkills(_, _, _)
AddKnownSkills(found, skill_item, k) ==
    IF k > Len(common_skills) THEN found
    ELSE LET skill == common_skills[k]
         IN  AddKnownSkills(
                 IF Contains(LowerChars(Chars(skill)), skill_item) /\ skill \notin Range(found)
                 THEN Append(found, skill)
                 ELSE found,
                 skill_item, k + 1)

\* lines 354-360 for the items of one section
RECURSIVE AddItems(_, _)
AddItems(found, potential_skills) ==
    IF potential_skills = <<>> THEN found
    ELSE LET skill_item == Strip(Head(potential_skills))
         IN  AddItems(
                 IF Len(skill_item) > MinItemLen /\ Len(skill_item) < MaxItemLen
                 THEN AddKnownSkills(found, skill_item, 1)
                 ELSE found,
                 Tail(potential_skills))

\* lines 351-360
RECURSIVE AddSections(_, _)
AddSections(found, sections) ==
    IF sections = <<>> THEN found
    ELSE AddSections(
             \* [,;|\n] and the bullet character, written "bullet" here
             AddItems(found, SplitOn({",", ";", "|", "\n", "bullet"}, Head(sections))),
             Tail(sections))

extract_skills(t) ==
    LET found == WithSapBasis(SearchAll(1, t))
    IN  IF Len(found) < MinSkillsBeforeFallback
        THEN AddSections(found, skill_sections(LowerChars(t), 1))
        ELSE found

\* the texts: up to MaxPieces pieces, written one after the other
MaxPieces == 3

SkillPieces ==
    {"Python", "C++", "c#", "Go", "R", "SAP", "basis", "x", " ", "\n", ",", "skills:"}

TextOf(pieces) == Flatten([i \in 1..Len(pieces) |-> Chars(pieces[i])])

SkillInit ==
    /\ \E pieces \in SeqsUpTo(SkillPieces, MaxPieces) : text = TextOf(pieces)
    /\ found_skills = <<>>
    /\ skill_pc = "call"
    /\ ScoreIdle /\ BatchIdle /\ NameIdle /\ CallIdle

ExtractSkills ==
    /\ skill_pc = "call"
    /\ found_skills' = extract_skills(text)
    /\ skill_pc' = "return"
    /\ UNCHANGED text
    /\ UNCHANGED <<score_vars, batch_vars, name_vars, call_vars>>

SkillNext == ExtractSkills

SpecSkills == SkillInit /\ [][SkillNext]_vars

(***************************************************************************)
(* C9                                                                      *)
(***************************************************************************)
\* the skill stands in the text as a whole word of its own: in any letter
\* case, with whitespace or an end of the text on either side
IsolatedWord(skill, t) ==
    \E i \in 1..Len(t) :
        /\ LiteralAt(LowerChars(Chars(skill)), LowerChars(t), i)
        /\ i = 1 \/ IsSpace(t[i - 1])
        /\ i + Len(Chars(skill)) > Len(t) \/ IsSpace(t[i + Len(Chars(skill))])

\* C9: every vocabulary skill that stands in the text as an isolated whole
\* word, in any letter case, is in the list extract_skills returns; the
\* entries that end in a non-word character, "C++" and "C#", included.
C9_IsolatedSkillIsFound ==
    skill_pc = "return" =>
        \A k \in 1..Len(common_skills) :
            IsolatedWord(common_skills[k], text) =>
                common_skills[k] \in Range(found_skills)

(***************************************************************************)
(* extract_name.                                                           *)
(***************************************************************************)
NameScanLines == 10
MaxNameLen == 50

IsDigitAt(t, i) == i \in 1..Len(t) /\ t[i] \in DigitChars

DigitsAt(t, i, n) == \A k \in 0..(n - 1) : IsDigitAt(t, i + k)

\* [-.\s]
IsPhoneSep(t, i) == i \in 1..Len(t) /\ (t[i] \in {"-", "."} \/ IsSpace(t[i]))

\* re.search(r'\d{3}[-.\s]?\d{3}[-.\s]?\d{4}', line); s1 and s2 are the
\* lengths of the two optional separators
SearchPhone(t) ==
    \E i \in 1..Len(t) : \E s1, s2 \in {0, 1} :
        /\ DigitsAt(t, i, 3)
        /\ s1 = 1 => IsPhoneSep(t, i + 3)
        /\ DigitsAt(t, i + 3 + s1, 3)
        /\ s2 = 1 => IsPhoneSep(t, i + 6 + s1)
        /\ DigitsAt(t, i + 6 + s1 + s2, 4)

\* the test of lines 136-138 with a limit other than that of the source
NameLineUpTo50(line) ==
    /\ line # <<>>
    /\ Len(line) <= MaxNameLen
    /\ "@" \notin Range(line)
    /\ ~SearchPhone(line)

\* the test of lines 136-138 on a stripped line
NameLine(line) ==
    /\ line # <<>>
    /\ Len(line) < MaxNameLen
    /\ "@" \notin Range(line)
    /\ ~SearchPhone(line)

\* the loop of lines 134-139 from lines[k] on, and line 141
RECURSIVE ScanLines(_, _)
ScanLines(lines, k) ==
    IF k > Len(lines) \/ k > NameScanLines THEN Chars("Unknown")
    ELSE IF NameLine(Strip(lines[k])) THEN Strip(lines[k])
    ELSE ScanLines(lines, k + 1)

extract_name(t) == ScanLines(SplitOn({"\n"}, t), 1)

MaxNamePieces == 4

NamePieces ==
    {"Ann Lee", "Bo", " ", "\n", "\n\n\n\n\n", "a@b.c", "555 123 4567", "x49", "x50"}

NameInit ==
    /\ \E pieces \in SeqsUpTo(NamePieces, MaxNamePieces) : name_text = TextOf(pieces)
    /\ name = <<>>
    /\ name_pc = "call"
    /\ ScoreIdle /\ BatchIdle /\ SkillIdle /\ CallIdle

ExtractName ==
    /\ name_pc = "call"
    /\ name' = extract_name(name_text)
    /\ name_pc' = "return"
    /\ UNCHANGED name_text
    /\ UNCHANGED <<score_vars, batch_vars, skill_vars, call_vars>>

NameNext == ExtractName

SpecName == NameInit /\ [][NameNext]_vars

(***************************************************************************)
(* C10                                                                     *)
(***************************************************************************)
\* the lines of the text, stripped
StrippedLines(t) ==
    LET lines == SplitOn({"\n"}, t)
    IN  [i \in 1..Len(lines) |-> Strip(lines[i])]

NonEmptyLines(t) == SelectSeq(StrippedLines(t), LAMBDA l : l # <<>>)

Qualifies(l) ==
    /\ Len(l) < 50
    /\ "@" \notin Range(l)
    /\ ~SearchPhone(l)

\* the first qualifying line of ls, "Unknown" if there is none
FirstQualifying(ls) ==
    IF \E i \in 1..Len(ls) : Qualifies(ls[i])
    THEN ls[CHOOSE i \in 1..Len(ls) :
                Qualifies(ls[i]) /\ \A j \in 1..(i - 1) : ~Qualifies(ls[j])]
    ELSE Chars("Unknown")

\* C10 as stated: extract_name returns the first line, among the first 10
\* non-empty lines of the text, that is shorter than 50 characters and has
\* neither '@' nor a 3-3-4 phone-like digit group; "Unknown" only when
\* none of those 10 lines qualifies.  Blank lines use up none of the 10.
C10_FirstAmongTenNonEmptyLines ==
    name_pc = "return" =>
        name = FirstQualifying(SubSeq(NonEmptyLines(name_text), 1,
                                      Min(10, Len(NonEmptyLines(name_text)))))

\* the non-empty ones among the first 10 lines of the text
NonEmptyOfFirstTen(t) ==
    SelectSeq(SubSeq(StrippedLines(t), 1, Min(10, Len(StrippedLines(t)))),
              LAMBDA l : l # <<>>)

\* C10, amended: extract_name returns the first line, among the first 10
\* lines of the text (split at '\n', blank lines counted), that is
\* non-empty after stripping, shorter than 50 characters and has neither
\* '@' nor a 3-3-4 phone-like digit group; "Unknown" when none of those
\* lines qualifies.
C10_FirstAmongFirstTenLines ==
    name_pc = "return" => name = FirstQualifying(NonEmptyOfFirstTen(name_text))

\* a name found behind blank lines and behind lines that do not qualify
C10_Witness ==
    /\ name_pc = "return"
    /\ name = Chars("Bo")
    /\ Len(SplitOn({"\n"}, name_text)) > 6
    /\ "@" \in Range(name_text)

(***************************************************************************)
(* extract_experience_years (candidate side), on the lower-case words of   *)
(* the text; the words of a text are written with one blank between them.  *)
(* An expression that opens with (\d+) may begin inside a word (NumEnd), an *)
(* expression that closes with a literal may end inside one.               *)
(***************************************************************************)
IsYearWord(w) == w \in {"years", "yrs", "year"}

\* a word that begins with "in"
StartsIn(w) == w \in {"in", "intern", "intermediate"}

\* (\d+)\+ at the end of a word
PlusNum(w) == IF w = "5+" THEN 5 ELSE -1

NumYearsPatterns == 9

\* the capture of pattern p of lines 378-392 at word i, -1 when no match
YearsPatternAt(p, ws, i) ==
    CASE p = 1 ->
           IF /\ NumEnd(At(ws, i)) >= 0 /\ IsYearWord(At(ws, i + 1))
              /\ \E a, b \in {0, 1} :
                    /\ a = 1 => At(ws, i + 2) = "of"
                    /\ b = 1 => At(ws, i + 2 + a) \in
                           {"total", "overall", "professional", "relevant", "industry"}
                    /\ StartsExperience(At(ws, i + 2 + a + b))
           THEN NumEnd(ws[i]) ELSE -1
      [] p = 2 ->
           IF /\ At(ws, i) \in {"total", "overall", "professional"}
              /\ \E a \in {0, 1} :
                    /\ a = 1 => At(ws, i + 1) = "of"
                    /\ WholeNum(At(ws, i + 1 + a)) >= 0
                    /\ IsYearWord(At(ws, i + 2 + a))
           THEN WholeNum(ws[i + 1 + (IF At(ws, i + 1) = "of" THEN 1 ELSE 0)]) ELSE -1
      [] p = 3 ->
           IF /\ At(ws, i) \in {"worked", "working", "experience"}
              /\ \E a \in {0, 1} :
                    /\ a = 1 => At(ws, i + 1) \in {"for", "of"}
                    /\ WholeNum(At(ws, i + 1 + a)) >= 0
                    /\ IsYearWord(At(ws, i + 2 + a))
           THEN WholeNum(ws[i + 1 + (IF At(ws, i + 1) \in {"for", "of"} THEN 1 ELSE 0)])
           ELSE -1
      [] p = 4 ->
           IF /\ NumEnd(At(ws, i)) >= 0 /\ IsYearWord(At(ws, i + 1))
              /\ \/ StartsIn(At(ws, i + 2))
                 \/ /\ At(ws, i + 2) = "of" /\ At(ws, i + 3) = "experience"
                    /\ StartsIn(At(ws, i + 4))
                 \/ At(ws, i + 2) = "experience" /\ At(ws, i + 3) = "with"
           THEN NumEnd(ws[i]) ELSE -1
      [] p = 5 ->
           IF /\ At(ws, i) \in {"sap", "it", "technical"}
              /\ At(ws, i + 1) \in {"experience", "professional"}
              /\ \E a \in {0, 1} :
                    /\ a = 1 => At(ws, i + 2) = "of"
                    /\ WholeNum(At(ws, i + 2 + a)) >= 0
                    /\ IsYearWord(At(ws, i + 3 + a))
           THEN WholeNum(ws[i + 2 + (IF At(ws, i + 2) = "of" THEN 1 ELSE 0)]) ELSE -1
      [] p = 6 ->
           IF /\ NumEnd(At(ws, i)) >= 0 /\ IsYearWord(At(ws, i + 1))
              /\ \E a \in {0, 1} :
                    /\ a = 1 => At(ws, i + 2) = "of"
                    /\ At(ws, i + 2 + a) \in {"sap", "basis", "it", "technical"}
                    /\ StartsExperience(At(ws, i + 3 + a))
           THEN NumEnd(ws[i]) ELSE -1
      [] p = 7 ->
           IF /\ At(ws, i) = "experience"
              /\ At(ws, i + 1) \in {"with", "in"}
              /\ At(ws, i + 2) \in {"sap", "basis"}
              /\ \E a \in {0, 1} :
                    /\ a = 1 => At(ws, i + 3) = "for"
                    /\ WholeNum(At(ws, i + 3 + a)) >= 0
                    /\ IsYearWord(At(ws, i + 4 + a))
           THEN WholeNum(ws[i + 3 + (IF At(ws, i + 3) = "for" THEN 1 ELSE 0)]) ELSE -1
      [] p = 8 ->
           IF PlusNum(At(ws, i)) >= 0 /\ IsYearWord(At(ws, i + 1))
           THEN PlusNum(ws[i]) ELSE -1
      [] p = 9 ->
           IF /\ At(ws, i) \in {"professional", "consultant", "specialist"}
              /\ At(ws, i + 1) = "with"
              /\ WholeNum(At(ws, i + 2)) >= 0
              /\ IsYearWord(At(ws, i + 3))
           THEN WholeNum(ws[i + 2]) ELSE -1

\* all_years (lines 397-414), as the set of the numbers found
all_years(ws) ==
    {YearsPatternAt(p, ws, i) : p \in 1..NumYearsPatterns, i \in 1..Len(ws)} \ {-1}

Max(S) == CHOOSE x \in S : \A y \in S : y <= x

(***************************************************************************)
(* estimate_experience_from_employment.                                    *)
(***************************************************************************)
CurrentYear == 2025
EarliestYear == 1900
MaxSpan == 50
MaxTotalYears == 30
DefaultEstimate == 5
MaxYearDigits == 9999

\* a word of exactly four digits
IsYear4(w) == WholeNum(w) >= 1000 /\ WholeNum(w) <= MaxYearDigits

\* a word made of word characters only (\w+ up to the next blank)
IsWordOnly(w) == w \notin {"", "-", "5+", "3-5", "01/2018"}

\* a word that begins with a word character
StartsWordChar(w) == w \notin {"", "-"}

NumTenurePatterns == 3

\* the capture of long_tenure_patterns[p] at word i, -1 when no match
TenurePatternAt(p, ws, i) ==
    CASE p = 1 ->
           IF /\ NumEnd(At(ws, i)) >= 0 /\ IsYearWord(At(ws, i + 1))
              /\ At(ws, i + 2) \in {"at", "with"}
              /\ StartsWordChar(At(ws, i + 3))
           THEN NumEnd(ws[i]) ELSE -1
      [] p = 2 ->
           IF /\ At(ws, i) \in {"since", "from"}
              /\ IsYear4(At(ws, i + 1))
              /\ \/ At(ws, i + 2) \in {"at", "with"}
                 \/ At(ws, i + 2) = "to" /\ At(ws, i + 3) = "present"
           THEN WholeNum(ws[i + 1]) ELSE -1
      [] p = 3 ->
           IF /\ At(ws, i) = "joined"
              /\ IsWordOnly(At(ws, i + 1))
              /\ At(ws, i + 2) = "in"
              /\ IsYear4(At(ws, i + 3))
           THEN WholeNum(ws[i + 3]) ELSE -1

\* lines 482-489 for one match: the value returned, -1 when the loop goes on
TenureReturn(n) ==
    IF n > MaxYearDigits THEN -1                       \* len(match) > 4
    ELSE IF n > EarliestYear
         THEN IF CurrentYear - n > 0 /\ CurrentYear - n < MaxSpan
              THEN CurrentYear - n ELSE -1
         ELSE n

\* lines 476-491 from pattern p, word i on: the first value returned, -1
\* when no match returns
RECURSIVE TenureScan(_, _, _)
TenureScan(p, ws, i) ==
    IF p > NumTenurePatterns THEN -1
    ELSE IF i > Len(ws) THEN TenureScan(p + 1, ws, 1)
    ELSE IF TenurePatternAt(p, ws, i) >= 0 /\ TenureReturn(TenurePatternAt(p, ws, i)) >= 0
         THEN TenureReturn(TenurePatternAt(p, ws, i))
         ELSE TenureScan(p, ws, i + 1)

\* a word that ends with four digits: the start of a range
YearEnd(w) == IF IsYear4(w) \/ w = "01/2018" THEN NumEnd(w) ELSE -1

IsRangeSep(w) == w \in {"-", "to"}

\* \d{1,2}/\d{4}
MonthYear(w) == IF w = "01/2018" THEN 2018 ELSE -1

\* \b(?:jan|feb|...|dec)[a-z]*\.?
IsMonthWord(w) == w \in {"jan", "mar", "junior"}

\* the year of the end of a range read at word j, 0 when there is none;
\* kind 1: \d{4}, kind 2: \d{1,2}/\d{4}, kind 3: month and \d{4}; each or
\* present, current, now
RangeEndYear(kind, ws, j) ==
    IF At(ws, j) \in {"present", "current", "now"} THEN CurrentYear
    ELSE IF kind = 1 /\ IsYear4(At(ws, j)) THEN WholeNum(ws[j])
    ELSE IF kind = 2 /\ MonthYear(At(ws, j)) >= 0 THEN MonthYear(ws[j])
    ELSE IF kind = 3 /\ IsMonthWord(At(ws, j)) /\ IsYear4(At(ws, j + 1))
         THEN WholeNum(ws[j + 1])
    ELSE 0

\* the number of words of that end
RangeEndLen(kind, ws, j) ==
    IF At(ws, j) \in {"present", "current", "now"} THEN 1
    ELSE IF kind = 3 THEN 2 ELSE 1

\* date_patterns[p] (p in 1..3) read at word i: [start, end, len], len 0
\* when it does not match there
DateRangeAt(p, ws, i) ==
    LET start == CASE p = 1 -> YearEnd(At(ws, i))
                   [] p = 2 -> MonthYear(At(ws, i))
                   [] p = 3 -> IF IsMonthWord(At(ws, i)) /\ IsYear4(At(ws, i + 1))
                               THEN WholeNum(ws[i + 1]) ELSE -1
        sep == IF p = 3 THEN i + 2 ELSE i + 1
    IN  IF start >= 0 /\ IsRangeSep(At(ws, sep)) /\ RangeEndYear(p, ws, sep + 1) > 0
        THEN [start |-> start, end |-> RangeEndYear(p, ws, sep + 1),
              len |-> sep - i + 1 + RangeEndLen(p, ws, sep + 1)]
        ELSE [start |-> 0, end |-> 0, len |-> 0]

\* lines 530-533: the years one range adds
SpanYears(start_year, end_year) ==
    IF start_year # 0 /\ end_year # 0 /\ start_year < end_year
       /\ end_year - start_year > 0 /\ end_year - start_year < MaxSpan
    THEN end_year - start_year
    ELSE 0

\* re.findall of date_patterns[p], p in 1..3, from word i on: the years added
RECURSIVE DateScan(_, _, _)
DateScan(p, ws, i) ==
    IF i > Len(ws) THEN 0
    ELSE LET m == DateRangeAt(p, ws, i)
         IN  IF m.len > 0
             THEN SpanYears(m.start, m.end) + DateScan(p, ws, i + m.len)
             ELSE DateScan(p, ws, i + 1)

\* the first range (pattern 1) at or after word i, 0 when there is none
RECURSIVE NextRange(_, _)
NextRange(ws, i) ==
    IF i > Len(ws) THEN 0
    ELSE IF DateRangeAt(1, ws, i).len > 0 THEN i
    ELSE NextRange(ws, i + 1)

\* re.findall of date_patterns[3], (?:project|contract).*?<range>
RECURSIVE ProjectScan(_, _)
ProjectScan(ws, i) ==
    IF i > Len(ws) THEN 0
    ELSE IF At(ws, i) \in {"project", "contract"} /\ NextRange(ws, i + 1) > 0
         THEN LET m == DateRangeAt(1, ws, NextRange(ws, i + 1))
              IN  SpanYears(m.start, m.end)
                  + ProjectScan(ws, NextRange(ws, i + 1) + m.len)
         ELSE ProjectScan(ws, i + 1)

\* total_years after the loop of lines 497-533
total_years(ws) ==
    DateScan(1, ws, 1) + DateScan(2, ws, 1) + DateScan(3, ws, 1) + ProjectScan(ws, 1)

\* line 539 without its default: total_years returned as it is
EstimateWithoutDefault(v) ==
    IF ~IsStr(v) THEN DefaultEstimate
    ELSE LET ws == Lower(v.val)
         IN  IF TenureScan(1, ws, 1) >= 0 THEN TenureScan(1, ws, 1)
             ELSE IF total_years(ws) > MaxTotalYears THEN MaxTotalYears
             ELSE total_years(ws)

estimate_experience_from_employment(v) ==
    IF ~IsStr(v) THEN DefaultEstimate            \* text.lower() raises: the handler
    ELSE LET ws == Lower(v.val)
         IN  IF TenureScan(1, ws, 1) >= 0 THEN TenureScan(1, ws, 1)
             ELSE IF total_years(ws) > MaxTotalYears THEN MaxTotalYears
             ELSE IF total_years(ws) > 0 THEN total_years(ws)
             ELSE DefaultEstimate

SeniorTermYears == 10
TechTermYears == 5
NoTermYears == 1

\* a handler that returns the error code -1
MinusOneOnError == 0 - 1

\* the handler of lines 439-441
ErrorYears == 3

\* lines 426-428: a career-spanning term is in the text
HasSeniorTerm(ws) ==
    \/ HasPhrase(ws, {<<"senior", "consultant">>, <<"principal", "consultant">>,
                      <<"lead", "consultant">>, <<"senior", "basis">>, <<"head", "of">>})
    \/ Range(ws) \cap {"chief", "director"} # {}

\* lines 432-433
HasTechTerm(ws) ==
    Range(ws) \cap {"sap", "basis", "hana", "abap", "netweaver", "fiori"} # {}

extract_experience_years(v) ==
    IF ~IsStr(v) THEN ErrorYears                 \* text.lower() raises: the handler
    ELSE LET ws == Lower(v.val)
         IN  IF all_years(ws) # {} THEN Max(all_years(ws))
             ELSE IF estimate_experience_from_employment(v) > 0
                  THEN estimate_experience_from_employment(v)
             ELSE IF HasSeniorTerm(ws) THEN SeniorTermYears
             ELSE IF HasTechTerm(ws) THEN TechTermYears
             ELSE NoTermYears

(***************************************************************************)
(* determine_seniority_level (candidate side).                             *)
(***************************************************************************)
CandSeniorYears == 10
CandLeadYears == 7
CandMidYears == 5
CandJuniorYears == 2

\* a handler that returns no level
NoLevelOnError == "unknown"

\* the handler of lines 587-589
LevelOnError == "mid"

\* the level with the title patterns of lines 559-572 skipped
LevelFromYearsOnly(v) ==
    IF ~IsStr(v) THEN LevelOnError
    ELSE LET years == extract_experience_years(v)
         IN  IF years >= CandSeniorYears THEN "senior"
             ELSE IF years >= CandLeadYears THEN "lead"
             ELSE IF years >= CandMidYears THEN "mid"
             ELSE IF years >= CandJuniorYears THEN "junior"
             ELSE "entry"

determine_seniority_level(v) ==
    IF ~IsStr(v) THEN LevelOnError               \* text.lower() raises: the handler
    ELSE
    LET text_lower == Lower(v.val)
        years == extract_experience_years(v)
    IN  IF HasToken(text_lower, {"cto", "cio", "ceo", "chief", "vp"})
           \/ HasPhrase(text_lower, {<<"vice", "president">>}) THEN "executive"
        ELSE IF HasToken(text_lower, {"director"}) THEN "director"
        ELSE IF HasToken(text_lower, {"senior", "sr", "lead", "principal"}) THEN "senior"
        ELSE IF HasToken(text_lower, {"manager"}) THEN "manager"
        ELSE IF HasToken(text_lower, {"mid", "intermediate"}) THEN "mid"
        ELSE IF HasToken(text_lower, {"junior", "jr"}) THEN "junior"
        ELSE IF HasToken(text_lower, {"trainee", "intern", "graduate"}) THEN "entry"
        ELSE IF years >= CandSeniorYears THEN "senior"
        ELSE IF years >= CandLeadYears THEN "lead"
        ELSE IF years >= CandMidYears THEN "mid"
        ELSE IF years >= CandJuniorYears THEN "junior"
        ELSE "entry"

(***************************************************************************)
(* One call of a function of one text.  A text is up to MaxPhrases phrases *)
(* written one after the other; the argument may also be no str.           *)
(***************************************************************************)
MaxPhrases == 2

\* twenty-one distinct tokens, the most frequent one of two letters
ManyWords ==
    <<"Go", "Go", "k01", "k02", "k03", "k04", "k05", "k06", "k07", "k08", "k09", "k10",
      "k11", "k12", "k13", "k14", "k15", "k16", "k17", "k18", "k19", "k20">>

TextPhrases ==
    {<<"10", "years", "of", "experience">>,
     <<"7", "years", "experience">>,
     <<"3-5", "years", "of", "experience">>,
     <<"1", "year", "of", "professional", "experience">>,
     <<"5", "years", "work", "experience">>,
     <<"experience", "of", "3", "years">>,
     <<"minimum", "5", "years">>,
     <<"at", "least", "3", "years">>,
     <<"5+", "years">>,
     <<"0", "years", "at", "ibm">>,
     <<"12", "years", "with", "sap">>,
     <<"from", "2015", "at">>,
     <<"from", "2030", "at">>,
     <<"2015", "-", "2020">>,
     <<"1980", "to", "2020">>,
     <<"01/2018", "-", "present">>,
     <<"jan", "2015", "-", "mar", "2020">>,
     <<"project">>,
     <<"Chief">>, <<"director">>, <<"Senior">>, <<"manager">>, <<"management">>,
     <<"Mid">>, <<"experienced">>, <<"junior">>, <<"entry">>, <<"intern">>,
     <<"sr">>, <<"jr">>, <<"vice", "president">>,
     <<"sap", "lead">>, <<"head", "of">>}

TextInputs ==
    {Str(Flatten(ps)) : ps \in SeqsUpTo(TextPhrases, MaxPhrases)}
        \cup {Str(ManyWords), Str(<<"Senior">> \o ManyWords), None, NonStr}

TextInit ==
    /\ callee = "call"
    /\ arg \in TextInputs
    /\ ret = <<>>
    /\ ScoreIdle /\ BatchIdle /\ SkillIdle /\ NameIdle

ExtractExperienceYears ==
    /\ callee = "call"
    /\ callee' = "extract_experience_years"
    /\ ret' = extract_experience_years(arg)
    /\ UNCHANGED <<arg, score_vars, batch_vars, skill_vars, name_vars>>

DetermineSeniorityLevel ==
    /\ callee = "call"
    /\ callee' = "determine_seniority_level"
    /\ ret' = determine_seniority_level(arg)
    /\ UNCHANGED <<arg, score_vars, batch_vars, skill_vars, name_vars>>

ExtractSeniorityLevel ==
    /\ callee = "call"
    /\ callee' = "extract_seniority_level"
    /\ ret' = extract_seniority_level(arg)
    /\ UNCHANGED <<arg, score_vars, batch_vars, skill_vars, name_vars>>

ExtractExperienceRequirement ==
    /\ callee = "call"
    /\ callee' = "extract_experience_requirement"
    /\ ret' = extract_experience_requirement(arg)
    /\ UNCHANGED <<arg, score_vars, batch_vars, skill_vars, name_vars>>

ExtractKeywords ==
    /\ callee = "call"
    /\ callee' = "extract_keywords_from_job_description"
    /\ ret' = extract_keywords_from_job_description(arg)
    /\ UNCHANGED <<arg, score_vars, batch_vars, skill_vars, name_vars>>

EstimateExperienceFromEmployment ==
    /\ callee = "call"
    /\ callee' = "estimate_experience_from_employment"
    /\ ret' = estimate_experience_from_employment(arg)
    /\ UNCHANGED <<arg, score_vars, batch_vars, skill_vars, name_vars>>

TextNext ==
    \/ ExtractExperienceYears
    \/ EstimateExperienceFromEmployment
    \/ DetermineSeniorityLevel
    \/ ExtractSeniorityLevel
    \/ ExtractExperienceRequirement
    \/ ExtractKeywords

SpecText == TextInit /\ [][TextNext]_vars

(***************************************************************************)
(* C11                                                                     *)
(***************************************************************************)
\* C11: for every input text, the empty text included, and for an argument
\* that makes the body raise, extract_experience_years returns a
\* non-negative integer: never None, never an exception.
C11_ExperienceYearsIsNatural ==
    callee = "extract_experience_years" => ret \in Nat

\* the empty text, which no pattern matches: the default of the estimate
C11_Witness ==
    /\ callee = "extract_experience_years"
    /\ arg = Str(<<>>)
    /\ ret = DefaultEstimate

(***************************************************************************)
(* C12                                                                     *)
(***************************************************************************)
SeniorityLevels ==
    {"entry", "junior", "mid", "manager", "lead", "senior", "director", "executive"}

\* C12: for every input text, and on the exception path, the candidate-side
\* determine_seniority_level and the job-side extract_seniority_level each
\* return one of the eight levels entry, junior, mid, manager, lead, senior,
\* director, executive.
C12_LevelIsOneOfEight ==
    callee \in {"determine_seniority_level", "extract_seniority_level"}
        => ret \in SeniorityLevels

\* the exception path of the candidate side
C12_Witness ==
    /\ callee = "determine_seniority_level"
    /\ ~IsStr(arg)
    /\ ret = "mid"

(***************************************************************************)
(* C13                                                                     *)
(***************************************************************************)
RangeText == Str(<<"3-5", "years", "of", "experience">>)

\* C13: extract_experience_requirement returns the number captured by the
\* first pattern, in list order, that matches the job text; for the job
\* text "3-5 years of experience", which states a range, that is the lower
\* bound 3; it returns 0 when no pattern matches.
C13_RangeGivesLowerBound ==
    (callee = "extract_experience_requirement" /\ IsStr(arg)) =>
        /\ ret = FirstPattern(1, Lower(arg.val))
        /\ arg = RangeText => ret = 3
        /\ (\A p \in 1..NumPatterns : FirstMatch(p, Lower(arg.val), 1) < 0) => ret = 0

(***************************************************************************)
(* C14                                                                     *)
(***************************************************************************)
\* the tokens of length > 2, by frequency descending, ties in the order of
\* first encounter
RankedLongTokens(v) == LongerThan(sorted_words(preprocess_text(v)), 2)

\* C14: extract_keywords_from_job_description returns the 20 most frequent
\* stemmed non-stopword tokens of length > 2 (all of them when there are
\* fewer), by frequency descending with ties in first-encounter order;
\* tokens of length 1 or 2 are not in the result and do not reduce the
\* number of longer tokens returned.
C14_TwentyLongTokens ==
    callee = "extract_keywords_from_job_description" =>
        ret = SubSeq(RankedLongTokens(arg), 1, Min(20, Len(RankedLongTokens(arg))))

(***************************************************************************)
(* C15                                                                     *)
(***************************************************************************)
\* the call reaches the result of lines 243-252: no early return, no exception
Scored ==
    /\ Returned
    /\ skills # <<>> /\ ~Falsy(job_description)
    /\ ~Raises(skills, job_description, experience_years, seniority_level)

\* the label by the rule: the tokens of the skill against the job tokens and
\* the top keywords
LabelByRule(skill, jd) ==
    LET T == Range(preprocess_text(skill))
        J == Range(preprocess_text(jd))
        K == Range(extract_keywords_from_job_description(jd))
    IN  CASE T \subseteq J /\ T \cap K # {}        -> "priority_match"
          [] T \subseteq J /\ T \cap K = {}        -> "full_match"
          [] ~(T \subseteq J) /\ T \cap J # {}     -> "partial_match"
          [] OTHER                                 -> "no_match"

\* the weights 1.5, 1.0, 0.3 and 0 of the labels, in tenths
WeightByRule(label) ==
    CASE label = "priority_match" -> 15
      [] label = "full_match"     -> 10
      [] label = "partial_match"  -> 3
      [] OTHER                    -> 0

RECURSIVE SumOfWeights(_, _)
SumOfWeights(sk, jd) ==
    IF sk = <<>> THEN 0
    ELSE WeightByRule(LabelByRule(Head(sk), jd)) + SumOfWeights(Tail(sk), jd)

\* 100 times the sum of the weights over the number of skills, then the
\* domain bonus of lines 112-115
ScoreByRule(sk, jd) ==
    LET base == R(10 * SumOfWeights(sk, jd), Len(sk))
    IN  IF SapContext(sk, jd) THEN RMin(RInt(100), RAdd(base, RInt(sap_match_bonus)))
        ELSE base

\* C15: every input skill receives exactly one label in skill_match_details:
\* priority_match (weight 1.5) when all its tokens are job tokens and at
\* least one is a top-20 keyword, full_match (1.0) when all are job tokens
\* and none is a keyword, partial_match (0.3) when at least one but not all
\* are job tokens, no_match (0) otherwise; the skill score before the domain
\* bonus is 100 times the sum of these weights over the number of skills.
C15_LabelsAndSkillScore ==
    Scored =>
        /\ DOMAIN result.skill_match_details = Range(skills)
        /\ \A s \in Range(skills) :
               result.skill_match_details[s] = LabelByRule(s, job_description)
        /\ result.score = Round1(ScoreByRule(skills, job_description))

\* a partial, a full and a priority match in one call: (0.3 + 1.0 + 1.5) / 3
C15_Witness ==
    /\ Scored
    /\ skills = MixedSkills /\ job_description = ChiefJob
    /\ result.skill_match_details[Str(<<"SAP", "BASIS">>)] = "partial_match"
    /\ result.skill_match_details[Str(<<"Go">>)] = "full_match"
    /\ result.skill_match_details[Str(<<"Python">>)] = "priority_match"
    /\ result.score = 933

(***************************************************************************)
(* C16                                                                     *)
(***************************************************************************)
\* the sub-scores and weights of the factors of one call, the factors of an
\* input that is None left out
SuppliedFactors(sk, jd, ey, sl) ==
    LET sap == SapContext(sk, jd)
    IN  <<[sub |-> SkillSimilarity(sk, jd), weight |-> skill_weight]>>
        \o (IF IsNone(ey) THEN <<>>
            ELSE <<[sub |-> ExperienceModifier(sap, ey.val, extract_experience_requirement(jd)),
                    weight |-> IF sap THEN sap_experience_weight ELSE std_experience_weight]>>)
        \o (IF IsNone(sl) THEN <<>>
            ELSE <<[sub |-> SeniorityModifier(sap, CandidateLevel(sl),
                                              SeniorityMap(extract_seniority_level(jd))),
                    weight |-> IF sap THEN sap_seniority_weight ELSE std_seniority_weight]>>)
        \o <<[sub |-> RInt(ContextFactors(sk, jd)), weight |-> context_weight]>>

RECURSIVE SumOfProducts(_)
SumOfProducts(fs) ==
    IF fs = <<>> THEN RInt(0)
    ELSE RAdd(RTimes(Head(fs).sub, Head(fs).weight), SumOfProducts(Tail(fs)))

RECURSIVE SumOfFactorWeights(_)
SumOfFactorWeights(fs) ==
    IF fs = <<>> THEN 0 ELSE Head(fs).weight + SumOfFactorWeights(Tail(fs))

WeightedAverage(fs) == ROver(SumOfProducts(fs), SumOfFactorWeights(fs))

\* tenths is x rounded to one decimal: no further than half a tenth from x
IsRoundedToTenth(tenths, x) ==
    LET diff == 10 * x.n - tenths * x.d
    IN  2 * (IF diff < 0 THEN -diff ELSE diff) <= x.d

\* C16: the weighted score is the weighted average of the sub-scores over
\* exactly the supplied factors: skill and context always, experience iff
\* experience_years is not None, seniority iff seniority_level is not None;
\* the reported weighted_score is that quotient rounded to one decimal.
C16_WeightedAverageOfSupplied ==
    Scored =>
        IsRoundedToTenth(result.weighted_score,
            WeightedAverage(SuppliedFactors(skills, job_description,
                                            experience_years, seniority_level)))

\* experience withheld, seniority supplied, a score above 0
C16_Witness ==
    /\ Scored
    /\ IsNone(experience_years) /\ seniority_level = Str(<<"junior">>)
    /\ Len(SuppliedFactors(skills, job_description, experience_years, seniority_level)) = 3
    /\ result.weighted_score > 0

(***************************************************************************)
(* C17                                                                     *)
(***************************************************************************)
\* the experience modifier by the rule, for ey years against the requirement
\* req that extract_experience_requirement resolved (0: none stated)
ExperienceByRule(sap, ey, req) ==
    IF req > 0
    THEN CASE ey >= req                      -> RInt(100)
           [] ey < req /\ sap /\ 10 * ey >= 8 * req     -> RInt(90)
           [] OTHER                          -> R(ey * 100, req)
    ELSE CASE ey >= 10 -> RInt(100)
           [] ey >= 5 /\ ey < 10 -> RInt(85)
           [] ey >= 2 /\ ey < 5  -> RInt(70)
           [] OTHER    -> RInt(50)

\* C17: with experience_years supplied and a required experience R > 0 the
\* experience modifier is 100 if experience_years >= R, else 90 if the SAP
\* domain context holds and experience_years >= 0.8 * R, else
\* experience_years / R * 100; with no requirement (R = 0) it is 100 for
\* >= 10 years, 85 for >= 5, 70 for >= 2 and 50 otherwise.
C17_ExperienceModifierRule ==
    (Scored /\ ~IsNone(experience_years)) =>
        result.experience_match =
            Round1(ExperienceByRule(SapContext(skills, job_description),
                                    experience_years.val, result.required_experience))

\* 6 of the 7 required years in the SAP domain context: the leniency tier
C17_Witness ==
    /\ Scored
    /\ SapContext(skills, job_description)
    /\ result.required_experience = 7 /\ experience_years = PyInt(6)
    /\ result.experience_match = Pct(90)

\* 10 years against a job that states no requirement: the top band
C17_TopBandReached ==
    /\ Scored
    /\ result.required_experience = 0 /\ experience_years = PyInt(TopBandYears)
    /\ result.experience_match = Pct(100)

(***************************************************************************)
(* C18                                                                     *)
(***************************************************************************)
\* the words of the general ladder of extract_seniority_level (lines 399-412)
JobLadderWords ==
    {"chief", "cto", "cio", "ceo", "vp", "director", "senior", "sr", "lead",
     "principal", "manager", "management", "mid", "intermediate", "experienced",
     "junior", "jr", "entry", "graduate", "trainee", "intern"}

\* one of the SAP-specific title phrases of lines 393-396
HasSapTitle(job_text) == HasPhrase(job_text, SapSeniorTitles \cup SapLeadTitles)

\* an alternative of the general ladder is in the text
OnJobLadder(job_text) ==
    HasToken(job_text, JobLadderWords) \/ HasPhrase(job_text, {<<"vice", "president">>})

\* the job description gives a level: by a title, or by a number of years
\* for the experience-based fallback of lines 414-437
LevelStated(jd) ==
    \/ HasSapTitle(Lower(jd.val))
    \/ OnJobLadder(Lower(jd.val))
    \/ extract_experience_requirement(jd) > 0

\* the seniority modifier by the rule, for candidate level c against r
SeniorityByRule(sap, c, r) ==
    CASE c >= r                   -> RInt(100)
      [] c < r /\ sap /\ r - c = 1 -> RInt(85)
      [] OTHER                    -> R(c * 100, r)

\* C18: with candidate level c and required level r on the scale entry 1,
\* junior 2, mid 3, senior 4, lead 5, manager 5, director 6, executive 7,
\* the seniority modifier is 100 if c >= r, else 85 if the SAP domain
\* context holds and r - c = 1, else c / r * 100; when the job description
\* gives no required level, the baseline r = 3 is used with the same rule.
C18_SeniorityModifierRule ==
    (Scored /\ ~IsNone(seniority_level)) =>
        result.seniority_match =
            Round1(SeniorityByRule(SapContext(skills, job_description),
                       CandidateLevel(seniority_level),
                       IF LevelStated(job_description)
                       THEN SeniorityMap(extract_seniority_level(job_description))
                       ELSE BaselineLevel))

(***************************************************************************)
(* C19                                                                     *)
(***************************************************************************)
\* the keyword classes of the candidate side in their priority order, each
\* with the alternatives of its pattern (lines 559-572)
TitleClasses ==
    << [level |-> "executive", words |-> {"cto", "cio", "ceo", "chief", "vp"},
        phrases |-> {<<"vice", "president">>}],
       [level |-> "director", words |-> {"director"}, phrases |-> {}],
       [level |-> "senior", words |-> {"senior", "sr", "lead", "principal"}, phrases |-> {}],
       [level |-> "manager", words |-> {"manager"}, phrases |-> {}],
       [level |-> "mid", words |-> {"mid", "intermediate"}, phrases |-> {}],
       [level |-> "junior", words |-> {"junior", "jr"}, phrases |-> {}],
       [level |-> "entry", words |-> {"trainee", "intern", "graduate"}, phrases |-> {}] >>

\* the classes with a keyword in the text
ClassesPresent(text_lower) ==
    {i \in 1..Len(TitleClasses) :
        \/ HasToken(text_lower, TitleClasses[i].words)
        \/ HasPhrase(text_lower, TitleClasses[i].phrases)}

\* the level of a number of years
LevelByYears(years) ==
    CASE years >= 10               -> "senior"
      [] years >= 7 /\ years < 10  -> "lead"
      [] years >= 5 /\ years < 7   -> "mid"
      [] years >= 2 /\ years < 5   -> "junior"
      [] OTHER                     -> "entry"

\* C19: determine_seniority_level checks the title keywords in the priority
\* order executive > director > senior/lead/principal ('senior') > manager >
\* mid/intermediate > junior > entry (trainee/intern/graduate) and returns
\* the level of the first class present in the text, whatever lower class
\* is present too and whatever the years of experience; only when no class
\* is present is the level that of extract_experience_years: >= 10 senior,
\* >= 7 lead, >= 5 mid, >= 2 junior, else entry.
C19_FirstTitleClassThenYears ==
    (callee = "determine_seniority_level" /\ IsStr(arg)) =>
        LET present == ClassesPresent(Lower(arg.val))
        IN  IF present # {}
            THEN ret = TitleClasses[CHOOSE i \in present : \A j \in present : i <= j].level
            ELSE ret = LevelByYears(extract_experience_years(arg))

\* a junior title with ten stated years: the title decides
C19_Witness ==
    /\ callee = "determine_seniority_level"
    /\ arg = Str(<<"10", "years", "of", "experience", "junior">>)
    /\ extract_experience_years(arg) = 10
    /\ ret = "junior"

\* two classes in one text, the lower one first: the higher one decides
C19_HigherClassDecides ==
    /\ callee = "determine_seniority_level"
    /\ arg = Str(<<"junior", "director">>)
    /\ ret = "director"

\* no class in the text: seven stated years give 'lead'
C19_YearsDecide ==
    /\ callee = "determine_seniority_level"
    /\ arg = Str(<<"7", "years", "experience">>)
    /\ ret = "lead"

(***************************************************************************)
(* C20                                                                     *)
(***************************************************************************)
\* C20: for every text with none of the SAP-specific title phrases for which
\* extract_seniority_level returns from its general keyword ladder,
\* determine_seniority_level of the same text returns the same level.
C20_SameLadderOnBothSides ==
    (/\ callee = "extract_seniority_level"
     /\ IsStr(arg)
     /\ ~HasSapTitle(Lower(arg.val))
     /\ OnJobLadder(Lower(arg.val)))
        => determine_seniority_level(arg) = ret

(***************************************************************************)
(* C21                                                                     *)
(***************************************************************************)
\* no long-tenure pattern matches anywhere in the text
NoTenurePhrase(ws) ==
    \A p \in 1..NumTenurePatterns : \A i \in 1..Len(ws) : TenurePatternAt(p, ws, i) < 0

\* the date range written at word i, in whichever of the three formats
RangeWrittenAt(ws, i) ==
    IF DateRangeAt(1, ws, i).len > 0 THEN DateRangeAt(1, ws, i)
    ELSE IF DateRangeAt(2, ws, i).len > 0 THEN DateRangeAt(2, ws, i)
    ELSE DateRangeAt(3, ws, i)

\* a range contributes end - start unless that is <= 0 or >= 50
KeptSpan(start_year, end_year) ==
    IF end_year - start_year > 0 /\ end_year - start_year < 50
    THEN end_year - start_year ELSE 0

\* the sum S over the ranges of the text from word i on, each range once
RECURSIVE SumOfRanges(_, _)
SumOfRanges(ws, i) ==
    IF i > Len(ws) THEN 0
    ELSE LET m == RangeWrittenAt(ws, i)
         IN  IF m.len > 0 THEN KeptSpan(m.start, m.end) + SumOfRanges(ws, i + m.len)
             ELSE SumOfRanges(ws, i + 1)

\* C21: when no long-tenure phrase matches, estimate_experience_from_employment
\* returns min(30, S), S the sum of end year - start year over the date
\* ranges of the text, each range counted exactly once, present/current/now
\* read as 2025 and a range of <= 0 or >= 50 years discarded; it returns 5
\* when S is 0.
C21_SumOfRangesOnce ==
    (/\ callee = "estimate_experience_from_employment"
     /\ IsStr(arg)
     /\ NoTenurePhrase(Lower(arg.val)))
        => LET S == SumOfRanges(Lower(arg.val), 1)
           IN  ret = IF S = 0 THEN 5 ELSE Min(30, S)

(***************************************************************************)
(* C22                                                                     *)
(***************************************************************************)
\* the skill score before the override: 100 * sum of weights / count
ScoreBeforeOverride(sk, jd) == R(10 * SumOfWeights(sk, jd), Len(sk))

\* C22: the SAP domain override never lowers the skill score: whenever some
\* skill starts with 'SAP' and the job text mentions sap, the returned skill
\* score is at least the score 100 * (sum of match weights) / count(skills)
\* computed before the override.
C22_OverrideNeverLowersScore ==
    (Scored /\ SapContext(skills, job_description)) =>
        result.score >= Round1(ScoreBeforeOverride(skills, job_description))

(***************************************************************************)
(* C23                                                                     *)
(***************************************************************************)
\* what the standard branch computes below the requirement (lines 141-144,
\* line 193): the ratio
StandardRatio(value, required) == R(value * 100, required)

\* C23: the SAP-context leniency is never stricter than the standard
\* evaluation: for a candidate value below the requirement (experience_years
\* below the required years, candidate level below the required level) the
\* experience modifier and the seniority modifier computed in the SAP domain
\* context are each at least the modifier the standard branch computes for
\* the same candidate and required values.
C23_LeniencyNeverStricter ==
    (Scored /\ SapContext(skills, job_description)) =>
        /\ (/\ ~IsNone(experience_years)
            /\ result.required_experience > 0
            /\ experience_years.val < result.required_experience)
               => result.experience_match >=
                      Round1(StandardRatio(experience_years.val, result.required_experience))
        /\ (/\ ~IsNone(seniority_level)
            /\ CandidateLevel(seniority_level)
                   < SeniorityMap(extract_seniority_level(job_description)))
               => result.seniority_match >=
                      Round1(StandardRatio(CandidateLevel(seniority_level),
                                 SeniorityMap(extract_seniority_level(job_description))))

(***************************************************************************)
(* C24                                                                     *)
(***************************************************************************)
\* the candidate level of the text comes from its years: no title class
FromYearsOfCandidate(t) == IsStr(t) /\ ClassesPresent(Lower(t.val)) = {}

\* the job level of the text comes from its years by the SAP thresholds of
\* lines 414-426: no title, and a SAP role word
FromYearsOfSapJob(t) ==
    /\ IsStr(t)
    /\ ~HasSapTitle(Lower(t.val)) /\ ~OnJobLadder(Lower(t.val))
    /\ (HasToken(Lower(t.val), SapRoleWords) \/ "s/4hana" \in Range(Lower(t.val)))

\* the texts a call is compared with: one phrase, alone and in a SAP role
ComparedTexts ==
    {Str(p) : p \in TextPhrases} \cup {Str(p \o <<"sap">>) : p \in TextPhrases}

\* C24: seniority derived from years is monotone on the ordinal scale of the
\* scorer (entry 1, junior 2, mid 3, senior 4, lead 5, manager 5, director 6,
\* executive 7): whenever the level is derived from a year count, by the
\* candidate thresholds 10/7/5/2 or by the job-side SAP thresholds 10/7/4/2,
\* a text with no more years never gets a level of greater ordinal value.
C24_LevelMonotoneInYears ==
    /\ (callee = "determine_seniority_level" /\ FromYearsOfCandidate(arg)) =>
           \A t \in ComparedTexts :
               (/\ FromYearsOfCandidate(t)
                /\ extract_experience_years(t) <= extract_experience_years(arg))
                   => SeniorityMap(determine_seniority_level(t)) <= SeniorityMap(ret)
    /\ (callee = "extract_seniority_level" /\ FromYearsOfSapJob(arg)) =>
           \A t \in ComparedTexts :
               (/\ FromYearsOfSapJob(t)
                /\ extract_experience_requirement(t) <= extract_experience_requirement(arg))
                   => SeniorityMap(extract_seniority_level(t)) <= SeniorityMap(ret)

(***************************************************************************)
(* C25                                                                     *)
(***************************************************************************)
\* a long-tenure phrase that carries the number 0
ZeroTenurePhrase(ws) ==
    \E p \in 1..NumTenurePatterns : \E i \in 1..Len(ws) : TenurePatternAt(p, ws, i) = 0

\* no date range is written in the text
NoDateRange(ws) == \A i \in 1..Len(ws) : RangeWrittenAt(ws, i).len = 0

\* the text has no experience phrase, no tenure phrase and no date range
NothingStated(ws) == all_years(ws) = {} /\ NoTenurePhrase(ws) /\ NoDateRange(ws)

C25_TermDefaultReached ==
    /\ callee = "extract_experience_years"
    /\ arg = Str(<<"Chief", "0", "years", "at", "ibm">>)
    /\ ZeroTenurePhrase(Lower(arg.val))
    /\ ret = SeniorTermYears

(***************************************************************************)
(* C26                                                                     *)
(***************************************************************************)
\* required_level of line 178
RequiredLevel(jd) == SeniorityMap(extract_seniority_level(jd))

AllSuppliedAreFull ==
    /\ result.score = Pct(100)
    /\ ~IsNone(experience_years) => result.experience_match = Pct(100)
    /\ ~IsNone(seniority_level) => result.seniority_match = Pct(100)

\* C27: the weighted score is a proper normalized average of the supplied
\* sub-scores: in any call where the skill score and every supplied modifier
\* (experience, seniority) equal 100, the returned weighted_score is 100, in
\* the SAP domain context and outside it.
C27_FullSubScoresGiveFullScore ==
    (Scored /\ AllSuppliedAreFull) => result.weighted_score = Pct(100)

====
